---------------------------- MODULE Spec2Model ----------------------------
(***************************************************************************)
(* PODSCRIBE: transcript/diarization fusion and time-windowed chunking.    *)
(*                                                                         *)
(*   src/src/audio_processing/fusion.py   find_speaker_for_segment,        *)
(*                                        merge_transcription_and_diarization *)
(*   src/src/database/chunking.py         chunk_transcript,                *)
(*                                        chunk_by_speaker_turns           *)
(*   src/src/database/indexing.py         create_chunks_with_accurate_      *)
(*                                        timestamps                       *)
(*   src/src/utils/helpers.py             seconds_to_timestamp,            *)
(*                                        timestamp_to_seconds, save_json  *)
(*   src/scripts/01_batch_transcribe.py   process_single_audio, main       *)
(*                                                                         *)
(* Twelve specifications share the module:                                 *)
(*   SpecMatch     one call of find_speaker_for_segment                    *)
(*   SpecMerge     one call of merge_transcription_and_diarization         *)
(*   SpecScenario  the merge of five-second segments with two turns        *)
(*   SpecWords     the words branch of the merge, for one segment          *)
(*   SpecChunk     one call of chunk_transcript                            *)
(*   SpecLookback  chunk_transcript on many short segments                 *)
(*   SpecDefaults  chunk_transcript with absent, zero or default arguments *)
(*   SpecTurns     one call of chunk_by_speaker_turns                      *)
(*   SpecChunkers  one call of either chunker                              *)
(*   SpecStamp     seconds_to_timestamp followed by timestamp_to_seconds   *)
(*   SpecIndex     one call of create_chunks_with_accurate_timestamps      *)
(*   SpecBatch     one run of main over the audio files found              *)
(* Each leaves the variables of the other entry points at their idle value.*)
(*                                                                         *)
(* Text is a sequence of one-character strings.  Times are integers: the   *)
(* fusion grid counts quarter milliseconds (so that round(x, 3) has work   *)
(* to do), the chunking grid counts quarter centiseconds (so that          *)
(* round(x, 2) has), the timestamp helpers count milliseconds.             *)
(***************************************************************************)
EXTENDS Integers, Sequences, FiniteSets, TLC

(***************************************************************************)
(* Bounds of the model.                                                    *)
(***************************************************************************)
\* fusion times range over 0..MaxTime (quarter milliseconds)
MaxTime == 2
\* longest diarization interval list handed to find_speaker_for_segment
MaxIntervals == 2
\* longest diarization interval list handed to the merge
MaxDiar == 1
\* most transcript segments the merge consumes
MaxSegs == 2
\* most segments chunk_transcript consumes
MaxChunkSegs == 3
\* most segments chunk_by_speaker_turns consumes
MaxTurnSegs == 3

VARIABLES
    \* ---- find_speaker_for_segment (SpecMatch) ----
    match_pc,          \* "call" | "done" | "idle"
    segment_start,     \* argument
    segment_end,       \* argument
    speaker_segments,  \* argument: sequence of [start, end, speaker]
    best_speaker,      \* the value returned
    \* ---- merge_transcription_and_diarization (SpecMerge) ----
    merge_pc,          \* "loop" | "done" | "raised" | "idle"
    diarization,       \* argument: [num_speakers, speakers, segments]
    transcript_segments, \* transcription["segments"], as far as the loop has read it
    merged_segments,   \* the local list merged_segments
    output,            \* the dictionary returned (NoOutput before the return)
    merge_missing,     \* the keys the inputs lack, as far as they were looked up
    merge_raised,      \* the key of the KeyError that left the call (None: none)
    output_path,       \* argument, from line 112 on (NotRead before)
    saved_file,        \* what save_json wrote at output_path (None: no file)
    \* ---- chunk_transcript (SpecChunk) ----
    chunk_pc,          \* "loop" | "done" | "idle"
    chunk_duration,    \* parameter, after line 31
    chunk_overlap,     \* parameter, after line 32
    min_chunk_size,    \* parameter
    segments,          \* transcript["segments"], as far as the loop has read it
    current_chunk,     \* the accumulator
    chunks,            \* the local list chunks
    formatted_chunks,  \* the list returned (<<>> before the return)
    chunk_has_segments, \* whether the transcript given has a `segments` key
    \* ---- chunk_by_speaker_turns (SpecTurns) ----
    turns_pc,          \* "loop" | "done" | "idle"
    max_turn_duration, \* parameter
    turn_segments,     \* transcript["segments"], as far as the loop has read it
    current_speaker,   \* the local current_speaker (None at first)
    turn_chunk,        \* the accumulator current_chunk
    turn_chunks,       \* the local list chunks
    turn_result,       \* the list returned (<<>> before the return)
    turn_has_segments, \* whether the transcript given has a `segments` key
    \* ---- the words branch of the merge, fusion.py lines 81-96 (SpecWords) ----
    words_pc,          \* "loop" | "done" | "idle"
    word_segment,      \* the transcript segment: [start, end]
    word_speaker_segments, \* the diarization intervals
    segment_words,     \* segment["words"], as far as the loop has read it
    words_with_speakers,   \* the local list words_with_speakers
    \* ---- helpers.py: seconds_to_timestamp, timestamp_to_seconds (SpecStamp) ----
    stamp_pc,          \* "format" | "parse" | "done" | "idle"
    stamp_seconds,     \* argument of seconds_to_timestamp, in milliseconds
    include_ms,        \* argument of seconds_to_timestamp
    timestamp,         \* the string seconds_to_timestamp returned
    stamp_back,        \* what timestamp_to_seconds returned, in milliseconds
    \* ---- indexing.py: create_chunks_with_accurate_timestamps (SpecIndex) ----
    index_pc,          \* "loop" | "done" | "raised" | "idle"
    index_duration,    \* chunk_duration after line 31
    index_overlap,     \* chunk_overlap after line 32
    index_segments,    \* transcript["segments"], as far as the loop has read it
    index_chunk,       \* the accumulator current_chunk
    index_chunks,      \* the local list chunks
    index_result,      \* the list formatted_chunks returned (<<>> before the return)
    \* ---- chunk_transcript: the arguments as passed (SpecDefaults) ----
    chunk_duration_arg, \* chunk_duration before line 31 (None when not given)
    chunk_overlap_arg,  \* chunk_overlap before line 32 (None when not given)
    \* ---- 01_batch_transcribe.py: main and process_single_audio (SpecBatch) ----
    batch_pc,          \* "next" | "check" | "diarize" | "merge" | "save" | "dump" | "idle"
    audio_files,       \* the episode names of the audio files still to process
    transcripts,       \* Config.TRANSCRIPTS_DIR: the file of each episode, None if absent
    episode_name,      \* the episode of the call in progress or last finished
    engine_calls,      \* the engines that call has invoked, in order
    call_result,       \* what that call returned (None while it runs)
    success_count,     \* main's success_count
    failed_files       \* main's failed_files

match_vars == <<match_pc, segment_start, segment_end, speaker_segments, best_speaker>>
merge_vars == <<merge_pc, diarization, transcript_segments, merged_segments, output,
                merge_missing, merge_raised, output_path, saved_file>>
turn_vars == <<turns_pc, max_turn_duration, turn_segments, current_speaker, turn_chunk,
               turn_chunks, turn_result, turn_has_segments>>
words_vars == <<words_pc, word_segment, word_speaker_segments, segment_words,
                words_with_speakers>>
index_vars == <<index_pc, index_duration, index_overlap, index_segments, index_chunk,
                index_chunks, index_result>>
batch_vars == <<batch_pc, audio_files, transcripts, episode_name, engine_calls, call_result,
                success_count, failed_files>>
args_vars == <<chunk_duration_arg, chunk_overlap_arg>>
stamp_vars == <<stamp_pc, stamp_seconds, include_ms, timestamp, stamp_back>>
chunk_vars == <<chunk_pc, chunk_duration, chunk_overlap, min_chunk_size, segments,
                current_chunk, chunks, formatted_chunks, chunk_has_segments>>

\* a value that may be None is a sequence: <<>> is None, <<x>> is x
None == <<>>
Some(x) == <<x>>
Val(o) == o[1]

UNKNOWN == "UNKNOWN"
SpeakerLabels == {"SPEAKER_00", "SPEAKER_01"}
NoOutput == [file |-> "none"]
\* the value of a parameter the call has not read yet
NotRead == <<"?">>

Max2(a, b) == IF a >= b THEN a ELSE b
Min2(a, b) == IF a <= b THEN a ELSE b

(***************************************************************************)
(* Input domains.                                                          *)
(***************************************************************************)
FusionTimes == 0..MaxTime

\* any interval of the grid, inverted ones (end < start) included: fusion
\* does not validate its inputs
AnyIntervals == [start : FusionTimes, end : FusionTimes, speaker : SpeakerLabels]

\* the turns diarize_audio produces: start < end
TurnIntervals == {iv \in AnyIntervals : iv.start < iv.end}

RECURSIVE SeqsUpTo(_, _)
SeqsUpTo(S, n) ==
    IF n = 0 THEN {<<>>}
    ELSE LET shorter == SeqsUpTo(S, n - 1)
         IN  shorter \cup {Append(s, x) : s \in {t \in shorter : Len(t) = n - 1}, x \in S}

(***************************************************************************)
(* fusion.py: find_speaker_for_segment                                     *)
(***************************************************************************)
\* lines 34-36: the overlap of the query with one diarization interval
OverlapInclusive(qs, qe, seg) ==
    Max2(0, Min2(qe, seg.end) - Max2(qs, seg.start) + 1)

Overlap(qs, qe, seg) ==
    LET overlap_start == Max2(qs, seg.start)
        overlap_end   == Min2(qe, seg.end)
    IN  Max2(0, overlap_end - overlap_start)

\* line 38: the test that replaces the best candidate
IsBetterOrEqual(overlap, max_overlap) == overlap >= max_overlap

IsBetterFirstOverlap(overlap, max_overlap) == overlap > 0 /\ max_overlap = 0

IsBetter(overlap, max_overlap) == overlap > max_overlap

\* lines 29-40: the loop, as a fold from the left over speaker_segments;
\* the accumulator is [max_overlap, best_speaker]
RECURSIVE MatchLoop(_, _, _, _, _)
MatchLoop(qs, qe, segs, i, acc) ==
    IF i > Len(segs) THEN acc
    ELSE LET overlap == Overlap(qs, qe, segs[i])
         IN  IF IsBetter(overlap, acc.max_overlap)
             THEN MatchLoop(qs, qe, segs, i + 1,
                            [max_overlap |-> overlap, best_speaker |-> segs[i].speaker])
             ELSE MatchLoop(qs, qe, segs, i + 1, acc)

\* lines 16-42
find_speaker_for_segment(qs, qe, segs) ==
    LET acc == MatchLoop(qs, qe, segs, 1, [max_overlap |-> 0, best_speaker |-> UNKNOWN])
    IN  IF acc.max_overlap > 0 THEN acc.best_speaker ELSE UNKNOWN


(***************************************************************************)
(* SpecMatch: one call of find_speaker_for_segment on any query and any    *)
(* interval list of the grid.                                              *)
(***************************************************************************)
MatchIdle ==
    /\ match_pc = "idle"
    /\ segment_start = 0
    /\ segment_end = 0
    /\ speaker_segments = <<>>
    /\ best_speaker = "none"

MergeIdle ==
    /\ merge_pc = "idle"
    /\ diarization = [num_speakers |-> 0, speakers |-> <<>>, segments |-> <<>>]
    /\ transcript_segments = <<>>
    /\ merged_segments = <<>>
    /\ output = NoOutput
    /\ merge_missing = {}
    /\ merge_raised = None
    /\ output_path = NotRead
    /\ saved_file = None

MatchInit ==
    /\ match_pc = "call"
    /\ segment_start \in FusionTimes
    /\ segment_end \in FusionTimes
    /\ speaker_segments \in SeqsUpTo(AnyIntervals, MaxIntervals)
    /\ best_speaker = "none"

\* lines 16-42, the whole call
MatchCall ==
    /\ match_pc = "call"
    /\ best_speaker' = find_speaker_for_segment(segment_start, segment_end, speaker_segments)
    /\ match_pc' = "done"
    /\ UNCHANGED <<segment_start, segment_end, speaker_segments>>

(***************************************************************************)
(* fusion.py: merge_transcription_and_diarization                          *)
(***************************************************************************)
\* one-character strings; " " is the only whitespace of the alphabet
IsSpace(c) == c = " "

RECURSIVE LStrip(_)
LStrip(t) == IF t # <<>> /\ IsSpace(Head(t)) THEN LStrip(Tail(t)) ELSE t

RECURSIVE RStrip(_)
RStrip(t) ==
    IF t # <<>> /\ IsSpace(t[Len(t)]) THEN RStrip(SubSeq(t, 1, Len(t) - 1)) ELSE t

\* str.strip()
Strip(t) == RStrip(LStrip(t))

\* round(x, 3) on the quarter-millisecond grid, in the same unit.  A value
\* halfway between two milliseconds goes up or down with the binary
\* representation of the float, so both results are possible.
Round3(t) ==
    LET r == t % 4
    IN  IF r = 0 THEN {t}
        ELSE IF r = 1 THEN {t - 1}
        ELSE IF r = 3 THEN {t + 1}
        ELSE {t - 2, t + 2}

\* diarization.py lines 83-100: the record diarize_audio returns
LabelOrder == <<"SPEAKER_00", "SPEAKER_01">>

Diarize(segs) ==
    LET unique_speakers == {segs[i].speaker : i \in 1..Len(segs)}
    IN  [num_speakers |-> Cardinality(unique_speakers),
         speakers     |-> SelectSeq(LabelOrder, LAMBDA l : l \in unique_speakers),
         segments     |-> segs]

\* the transcription record: file and language, and the segment texts
TranscriptionFile == "episode.mp3"
TranscriptionLanguage == "en"
MergeTexts == {<<"a">>, <<" ", "a", "b", " ">>}

\* the segments a transcription can deliver after those already read:
\* in time order, each with start <= end
NextTranscriptSegments(read) ==
    LET from == IF read = <<>> THEN 0 ELSE read[Len(read)].end
    IN  {seg \in [start : from..MaxTime, end : from..MaxTime, text : MergeTexts] :
            seg.start <= seg.end}

\* lines 69-79: the merged segment of one transcript segment, given the
\* rounded times
MergedSegmentDropUnknown(segment, speaker_segs, st, en) ==
    LET speaker == find_speaker_for_segment(segment.start, segment.end, speaker_segs)
    IN  IF speaker = UNKNOWN THEN <<>>
        ELSE <<[start |-> st, end |-> en, text |-> Strip(segment.text), speaker |-> speaker]>>

MergedSegment(segment, speaker_segs, st, en) ==
    LET start_time == segment.start
        end_time   == segment.end
        speaker    == find_speaker_for_segment(start_time, end_time, speaker_segs)
    IN  <<[start |-> st, end |-> en, text |-> Strip(segment.text), speaker |-> speaker]>>

\* lines 101-107: the dictionary returned
MergeOutputRecomputed(diar, merged) ==
    LET labels == {merged[i].speaker : i \in 1..Len(merged)}
    IN  [file         |-> TranscriptionFile,
         language     |-> TranscriptionLanguage,
         num_speakers |-> Cardinality(labels),
         speakers     |-> SelectSeq(LabelOrder \o <<UNKNOWN>>, LAMBDA l : l \in labels),
         segments     |-> merged]

MergeOutput(diar, merged) ==
    [file         |-> TranscriptionFile,
     language     |-> TranscriptionLanguage,
     num_speakers |-> diar.num_speakers,
     speakers     |-> diar.speakers,
     segments     |-> merged]

\* the keys lines 61-62 look up, in that order, and the key line 102 looks up
SegmentsKeys == <<"diarization.segments", "transcription.segments">>
FileKey == "transcription.file"

\* the first of the keys `keys` that the inputs lack (None: they lack none)
FirstMissing(keys, missing) ==
    LET lacking == SelectSeq(keys, LAMBDA k : k \in missing)
    IN  IF lacking = <<>> THEN None ELSE Some(lacking[1])

\* the destination argument: None (the default) or a path
OutputPaths == {None, Some("merged.json")}

\* lines 112-113 and helpers.py lines 123-127: the file at the destination
\* after the call
SavedFileAlways(path, data) == Some(data)

SavedFile(path, data) == IF path = None THEN None ELSE Some(data)

MergeInit ==
    /\ merge_pc = "loop"
    /\ diarization \in {Diarize(s) : s \in SeqsUpTo(TurnIntervals, MaxDiar)}
    /\ transcript_segments = <<>>
    /\ merged_segments = <<>>
    /\ output = NoOutput
    /\ merge_missing \in SUBSET {SegmentsKeys[1], SegmentsKeys[2]}
    /\ merge_raised = None
    /\ output_path = NotRead
    /\ saved_file = None

\* lines 61-62: a segments key is absent, the KeyError leaves the call
MergeMissingSegments ==
    /\ merge_pc = "loop"
    /\ FirstMissing(SegmentsKeys, merge_missing) # None
    /\ merge_raised' = FirstMissing(SegmentsKeys, merge_missing)
    /\ merge_pc' = "raised"
    /\ UNCHANGED <<diarization, transcript_segments, merged_segments, output,
                   merge_missing, output_path, saved_file>>

\* lines 67-98: one iteration of the loop over transcript_segments
MergeSegment ==
    /\ merge_pc = "loop"
    /\ FirstMissing(SegmentsKeys, merge_missing) = None
    /\ Len(transcript_segments) < MaxSegs
    /\ \E segment \in NextTranscriptSegments(transcript_segments) :
         \E st \in Round3(segment.start), en \in Round3(segment.end) :
            /\ transcript_segments' = Append(transcript_segments, segment)
            /\ merged_segments' =
                  merged_segments \o MergedSegment(segment, diarization.segments, st, en)
    /\ UNCHANGED <<merge_pc, diarization, output, merge_missing, merge_raised,
                   output_path, saved_file>>

\* lines 100-102: the list is exhausted and the transcription has no file
\* key, the KeyError leaves the call
MergeMissingFile ==
    /\ merge_pc = "loop"
    /\ FirstMissing(SegmentsKeys, merge_missing) = None
    /\ merge_missing' = merge_missing \cup {FileKey}
    /\ merge_raised' = Some(FileKey)
    /\ merge_pc' = "raised"
    /\ UNCHANGED <<diarization, transcript_segments, merged_segments, output,
                   output_path, saved_file>>

\* lines 100-116: the list is exhausted, the output is built, saved if a
\* destination was given, and returned
MergeReturn ==
    /\ merge_pc = "loop"
    /\ FirstMissing(SegmentsKeys, merge_missing) = None
    /\ output' = MergeOutput(diarization, merged_segments)
    /\ output_path' \in OutputPaths
    /\ saved_file' = SavedFile(output_path', output')
    /\ merge_pc' = "done"
    /\ UNCHANGED <<diarization, transcript_segments, merged_segments, merge_missing,
                   merge_raised>>

(***************************************************************************)
(* The merge on whole seconds: a diarization of two adjacent turns over    *)
(* [0, 15] s and a transcription of adjacent five-second segments.         *)
(***************************************************************************)
\* most transcript segments the merge consumes here
MaxScenarioSegs == 3

\* n seconds on the quarter-millisecond grid
FusionSeconds(n) == n * 4000

\* where the first turn ends and the second starts, in seconds
TurnBoundaries == {5, 7, 8, 10}

ScenarioTurns(boundary, first, second) ==
    <<[start |-> FusionSeconds(0), end |-> FusionSeconds(boundary), speaker |-> first],
      [start |-> FusionSeconds(boundary), end |-> FusionSeconds(15), speaker |-> second]>>

\* the k-th five-second segment (k = 0, 1, ...)
ScenarioSegment(k, text) ==
    [start |-> FusionSeconds(5 * k), end |-> FusionSeconds(5 * k + 5), text |-> text]

ScenarioInit ==
    /\ merge_pc = "loop"
    /\ \E boundary \in TurnBoundaries, first \in SpeakerLabels, second \in SpeakerLabels :
          diarization = Diarize(ScenarioTurns(boundary, first, second))
    /\ transcript_segments = <<>>
    /\ merged_segments = <<>>
    /\ output = NoOutput
    /\ merge_missing = {}
    /\ merge_raised = None
    /\ output_path = NotRead
    /\ saved_file = None

\* lines 67-98: one iteration of the loop over transcript_segments
MergeScenarioSegment ==
    /\ merge_pc = "loop"
    /\ Len(transcript_segments) < MaxScenarioSegs
    /\ \E text \in MergeTexts :
         LET segment == ScenarioSegment(Len(transcript_segments), text)
         IN  \E st \in Round3(segment.start), en \in Round3(segment.end) :
                /\ transcript_segments' = Append(transcript_segments, segment)
                /\ merged_segments' =
                      merged_segments \o MergedSegment(segment, diarization.segments, st, en)
    /\ UNCHANGED <<merge_pc, diarization, output, merge_missing, merge_raised,
                   output_path, saved_file>>

(***************************************************************************)
(* chunking.py: chunk_transcript                                           *)
(*                                                                         *)
(* Times are on the quarter-centisecond grid.  A chunk carries, next to the *)
(* fields of the code, the history field `parts`: the indices (0-based) of *)
(* the segments whose text line 81 or line 89 put into its text, in that   *)
(* order.  The strings timestamp_start and timestamp_end are derived from  *)
(* start and end by seconds_to_timestamp and are not part of the record    *)
(* here.                                                                   *)
(***************************************************************************)
\* config.py lines 51-52, in seconds
CHUNK_DURATION == 45
CHUNK_OVERLAP == 5

\* `x or default`: a falsy x (None, 0) gives the default
OrDefaultNoneOnly(x, default) == IF x = None THEN default ELSE Val(x)

OrDefault(x, default) == IF x = None \/ x = Some(0) THEN default ELSE Val(x)

\* seconds on the quarter-centisecond grid
Seconds(n) == n * 400

\* the arguments of a call
ChunkDurationArgs == {Some(1), Some(2)}
ChunkOverlapArgs == {Some(1), Some(2), Some(3)}
MinChunkSizes == {0, 2, 3}

\* the segments of a transcript: the first starts at one of FirstStarts,
\* each later one where the one before it ended (the chunker reads the
\* start of the first segment only), and each runs for one of SegLens (a
\* segment may have start = end); the text is empty or one letter; the
\* speaker key is absent or holds a label
FirstStarts == {0, 1}
SegLens == {0, 2}
ChunkTexts == {<<>>, <<"a">>}
SpeakerFields == {None, Some("SPEAKER_00")}

NextChunkSegments(read) ==
    LET starts == IF read = <<>> THEN FirstStarts ELSE {read[Len(read)].end}
    IN  {[start |-> s, end |-> s + l, text |-> t, speaker |-> sp] :
            s \in starts, l \in SegLens, t \in ChunkTexts, sp \in SpeakerFields}

\* segment.get("speaker", "UNKNOWN")
SegmentSpeaker(segment) ==
    IF segment.speaker = None THEN UNKNOWN ELSE Val(segment.speaker)

\* " ".join(texts)
RECURSIVE Join(_)
Join(texts) ==
    IF texts = <<>> THEN <<>>
    ELSE IF Len(texts) = 1 THEN texts[1]
    ELSE texts[1] \o <<" ">> \o Join(Tail(texts))

\* list(a_set): the elements in the order the set iterates, which the
\* hash seed decides
RECURSIVE Orders(_)
Orders(S) ==
    IF S = {} THEN {<<>>}
    ELSE UNION {{<<x>> \o rest : rest \in Orders(S \ {x})} : x \in S}

\* round(x, 2) on the quarter-centisecond grid, in the same unit; a value
\* halfway between two centiseconds goes either way with the float
Round2(d) ==
    LET r == d % 4
    IN  IF r = 0 THEN {d}
        ELSE IF r = 1 THEN {d - 1}
        ELSE IF r = 3 THEN {d + 1}
        ELSE {d - 2, d + 2}

\* lines 44-50
FreshChunk ==
    [text |-> <<>>, start |-> None, end |-> None, speakers |-> {},
     segment_indices |-> <<>>, parts |-> <<>>]

\* lines 59-60
WithStart(chunk, segment) ==
    IF chunk.start = None THEN [chunk EXCEPT !.start = Some(segment.start)] ELSE chunk

\* lines 63-65: the flush decision for the segment being processed
FlushesEitherTest(chunk, segment, duration, min_size) ==
    \/ segment.end - Val(WithStart(chunk, segment).start) > duration
    \/ Len(chunk.text) >= min_size

FlushesWithoutDurationTest(chunk, segment, duration, min_size) ==
    Len(chunk.text) >= min_size

FlushesAtDuration(chunk, segment, duration, min_size) ==
    /\ segment.end - Val(WithStart(chunk, segment).start) >= duration
    /\ Len(chunk.text) >= min_size

Flushes(chunk, segment, duration, min_size) ==
    LET chunk_duration_so_far == segment.end - Val(WithStart(chunk, segment).start)
    IN  chunk_duration_so_far > duration /\ Len(chunk.text) >= min_size

\* lines 75-78: the indices (0-based) of the overlap segments, idx being
\* the index of the segment that triggered the flush
OverlapIndicesAnyDistance(segs, idx, overlap_start) ==
    SelectSeq([k \in 1..idx |-> k - 1], LAMBDA i : segs[i + 1].end >= overlap_start)

OverlapIndices(segs, idx, overlap_start) ==
    LET lo == Max2(0, idx - 5)
        window == [k \in 1..(idx - lo) |-> lo + k - 1]
    IN  SelectSeq(window, LAMBDA i : segs[i + 1].end >= overlap_start)

\* lines 72-86: the chunk that follows a flush
RestartedChunkSignError(segs, idx, seg_end, overlap) ==
    LET overlap_start == seg_end + overlap
        overlap_indices == OverlapIndices(segs, idx, overlap_start)
    IN  [text |-> Join([k \in 1..Len(overlap_indices) |-> segs[overlap_indices[k] + 1].text]),
         start |-> Some(overlap_start),
         end |-> None,
         speakers |-> {SegmentSpeaker(segs[overlap_indices[k] + 1]) :
                          k \in 1..Len(overlap_indices)},
         segment_indices |-> <<>>,
         parts |-> overlap_indices]

RestartedChunk(segs, idx, seg_end, overlap) ==
    LET overlap_start == seg_end - overlap
        overlap_indices == OverlapIndices(segs, idx, overlap_start)
    IN  [text |-> Join([k \in 1..Len(overlap_indices) |-> segs[overlap_indices[k] + 1].text]),
         start |-> Some(overlap_start),
         end |-> None,
         speakers |-> {SegmentSpeaker(segs[overlap_indices[k] + 1]) :
                          k \in 1..Len(overlap_indices)},
         segment_indices |-> <<>>,
         parts |-> overlap_indices]

\* lines 88-92
WithSegment(chunk, segment, idx) ==
    [chunk EXCEPT !.text = @ \o <<" ">> \o segment.text,
                  !.end = Some(segment.end),
                  !.speakers = @ \cup {SegmentSpeaker(segment)},
                  !.segment_indices = Append(@, idx),
                  !.parts = Append(@, idx)]

\* lines 67-69: the chunk as it is closed, its speakers in the order `order`
ClosedChunk(chunk, seg_end, order) ==
    [chunk EXCEPT !.end = Some(seg_end), !.speakers = order]

\* line 95: the test that emits the accumulator after the loop
EmitsFinalNoMinimum(chunk, min_size) == Strip(chunk.text) # <<>>

EmitsFinal(chunk, min_size) ==
    Strip(chunk.text) # <<>> /\ Len(chunk.text) >= min_size

\* lines 104-115: one formatted chunk
EpisodeName == "episode.mp3"

FormattedChunk(chunk, i, duration) ==
    [chunk_id |-> i,
     text |-> Strip(chunk.text),
     start |-> Val(chunk.start),
     end |-> Val(chunk.end),
     duration |-> duration,
     speakers |-> chunk.speakers,
     episode |-> EpisodeName,
     num_segments |-> Len(chunk.segment_indices),
     parts |-> chunk.parts]

\* lines 102-118: every formatting of a chunk list, one per outcome of the
\* roundings
Formattings(cs) ==
    LET n == Len(cs)
        Durations(i) == Round2(Val(cs[i].end) - Val(cs[i].start))
        choices == {ds \in [1..n -> UNION {Durations(i) : i \in 1..n}] :
                       \A i \in 1..n : ds[i] \in Durations(i)}
    IN  {[i \in 1..n |-> FormattedChunk(cs[i], i - 1, ds[i])] : ds \in choices}

ChunkIdle ==
    /\ chunk_pc = "idle"
    /\ chunk_duration = 0
    /\ chunk_overlap = 0
    /\ min_chunk_size = 0
    /\ segments = <<>>
    /\ current_chunk = FreshChunk
    /\ chunks = <<>>
    /\ formatted_chunks = <<>>
    /\ chunk_has_segments = TRUE

\* lines 31-50
ChunkInit ==
    /\ chunk_pc = "loop"
    /\ \E d \in ChunkDurationArgs : chunk_duration = OrDefault(d, Seconds(CHUNK_DURATION))
    /\ \E o \in ChunkOverlapArgs : chunk_overlap = OrDefault(o, Seconds(CHUNK_OVERLAP))
    /\ min_chunk_size \in MinChunkSizes
    /\ chunk_has_segments \in BOOLEAN
    /\ segments = <<>>
    /\ current_chunk = FreshChunk
    /\ chunks = <<>>
    /\ formatted_chunks = <<>>

\* lines 52-92: one iteration of the loop, without a flush
ChunkAppend ==
    /\ chunk_pc = "loop"
    /\ chunk_has_segments
    /\ Len(segments) < MaxChunkSegs
    /\ \E segment \in NextChunkSegments(segments) :
         /\ ~Flushes(current_chunk, segment, chunk_duration, min_chunk_size)
         /\ segments' = Append(segments, segment)
         /\ current_chunk' = WithSegment(WithStart(current_chunk, segment), segment, Len(segments))
    /\ UNCHANGED <<chunk_pc, chunk_duration, chunk_overlap, min_chunk_size, chunks,
                   formatted_chunks, chunk_has_segments>>

\* lines 52-92: one iteration of the loop, with a flush
ChunkFlush ==
    /\ chunk_pc = "loop"
    /\ chunk_has_segments
    /\ Len(segments) < MaxChunkSegs
    /\ \E segment \in NextChunkSegments(segments) :
         /\ Flushes(current_chunk, segment, chunk_duration, min_chunk_size)
         /\ segments' = Append(segments, segment)
         /\ \E order \in Orders(current_chunk.speakers) :
              chunks' = Append(chunks,
                               ClosedChunk(WithStart(current_chunk, segment), segment.end, order))
         /\ current_chunk' =
               WithSegment(RestartedChunk(segments, Len(segments), segment.end, chunk_overlap),
                           segment, Len(segments))
    /\ UNCHANGED <<chunk_pc, chunk_duration, chunk_overlap, min_chunk_size, formatted_chunks,
                   chunk_has_segments>>

\* lines 34-39 and 94-118: the segments are exhausted (or there were none:
\* line 34 reads a transcript without a `segments` key as one with no segments),
\* the final chunk is emitted or dropped, the chunks are formatted and returned
ChunkReturn ==
    /\ chunk_pc = "loop"
    /\ \E order \in Orders(current_chunk.speakers) :
         LET all == IF segments # <<>> /\ EmitsFinal(current_chunk, min_chunk_size)
                    THEN Append(chunks, [current_chunk EXCEPT !.speakers = order])
                    ELSE chunks
         IN  /\ chunks' = all
             /\ formatted_chunks' \in Formattings(all)
    /\ chunk_pc' = "done"
    /\ UNCHANGED <<chunk_duration, chunk_overlap, min_chunk_size, segments, current_chunk,
                   chunk_has_segments>>

(***************************************************************************)
(* chunk_transcript on longer transcripts of short segments, where a flush *)
(* has more than five segments behind it.                                  *)
(***************************************************************************)
\* most segments chunk_transcript consumes here
MaxLookbackSegs == 7

LookbackOverlapArgs == {Some(1), Some(3)}
LookbackMinChunkSizes == {0, 12}
LookbackLens == {0, 1}

NextLookbackSegments(read) ==
    LET s == IF read = <<>> THEN 0 ELSE read[Len(read)].end
    IN  {[start |-> s, end |-> s + l, text |-> <<"a">>, speaker |-> None] :
            l \in LookbackLens}

\* lines 31-50
LookbackInit ==
    /\ chunk_pc = "loop"
    /\ chunk_duration = OrDefault(Some(1), Seconds(CHUNK_DURATION))
    /\ \E o \in LookbackOverlapArgs : chunk_overlap = OrDefault(o, Seconds(CHUNK_OVERLAP))
    /\ min_chunk_size \in LookbackMinChunkSizes
    /\ chunk_has_segments = TRUE
    /\ segments = <<>>
    /\ current_chunk = FreshChunk
    /\ chunks = <<>>
    /\ formatted_chunks = <<>>

\* lines 52-92: one iteration of the loop, without a flush, on a segment
\* out of `candidates`
ChunkAppendFrom(candidates, most) ==
    /\ chunk_pc = "loop"
    /\ Len(segments) < most
    /\ \E segment \in candidates :
         /\ ~Flushes(current_chunk, segment, chunk_duration, min_chunk_size)
         /\ segments' = Append(segments, segment)
         /\ current_chunk' = WithSegment(WithStart(current_chunk, segment), segment, Len(segments))
    /\ UNCHANGED <<chunk_pc, chunk_duration, chunk_overlap, min_chunk_size, chunks,
                   formatted_chunks, chunk_has_segments>>

\* lines 52-92: one iteration of the loop, with a flush, on a segment out of
\* `candidates`
ChunkFlushFrom(candidates, most) ==
    /\ chunk_pc = "loop"
    /\ Len(segments) < most
    /\ \E segment \in candidates :
         /\ Flushes(current_chunk, segment, chunk_duration, min_chunk_size)
         /\ segments' = Append(segments, segment)
         /\ \E order \in Orders(current_chunk.speakers) :
              chunks' = Append(chunks,
                               ClosedChunk(WithStart(current_chunk, segment), segment.end, order))
         /\ current_chunk' =
               WithSegment(RestartedChunk(segments, Len(segments), segment.end, chunk_overlap),
                           segment, Len(segments))
    /\ UNCHANGED <<chunk_pc, chunk_duration, chunk_overlap, min_chunk_size, formatted_chunks,
                   chunk_has_segments>>

LookbackAppend == ChunkAppendFrom(NextLookbackSegments(segments), MaxLookbackSegs)

LookbackFlush == ChunkFlushFrom(NextLookbackSegments(segments), MaxLookbackSegs)

(***************************************************************************)
(* chunk_transcript called with arguments that are absent, zero, or the    *)
(* configured defaults, on segments long enough for the default duration.  *)
(***************************************************************************)
\* most segments chunk_transcript consumes here
MaxDefaultsSegs == 3

DefaultsDurationArgs == {None, Some(0), Some(Seconds(CHUNK_DURATION)), Some(Seconds(30))}
DefaultsOverlapArgs == {None, Some(0), Some(Seconds(CHUNK_OVERLAP)), Some(Seconds(10))}
DefaultsLens == {Seconds(4), Seconds(30)}

NextDefaultsSegments(read) ==
    LET s == IF read = <<>> THEN 0 ELSE read[Len(read)].end
    IN  {[start |-> s, end |-> s + l, text |-> <<"a">>, speaker |-> None] :
            l \in DefaultsLens}

ArgsIdle ==
    /\ chunk_duration_arg = None
    /\ chunk_overlap_arg = None

\* lines 15-18 and 31-50
DefaultsInit ==
    /\ chunk_pc = "loop"
    /\ chunk_duration_arg \in DefaultsDurationArgs
    /\ chunk_overlap_arg \in DefaultsOverlapArgs
    /\ chunk_duration = OrDefault(chunk_duration_arg, Seconds(CHUNK_DURATION))
    /\ chunk_overlap = OrDefault(chunk_overlap_arg, Seconds(CHUNK_OVERLAP))
    /\ min_chunk_size \in {0, 2}
    /\ chunk_has_segments = TRUE
    /\ segments = <<>>
    /\ current_chunk = FreshChunk
    /\ chunks = <<>>
    /\ formatted_chunks = <<>>

DefaultsAppend == ChunkAppendFrom(NextDefaultsSegments(segments), MaxDefaultsSegs)

DefaultsFlush == ChunkFlushFrom(NextDefaultsSegments(segments), MaxDefaultsSegs)

(***************************************************************************)
(* chunking.py: chunk_by_speaker_turns                                     *)
(*                                                                         *)
(* The accumulator is a dictionary whose keys vary: `episode` is None      *)
(* where the dictionary has no such key.  `parts` is the history field of  *)
(* chunk_transcript: the segments whose text line 152 or line 166 put into *)
(* the text.                                                               *)
(***************************************************************************)
MaxTurnDurations == {1, 2}

\* the segments of a transcript, in time order: the first starts at one of
\* FirstStarts, each later one after a pause of TurnGaps, and each runs for
\* one of TurnLens
TurnGaps == {0}
TurnLens == {0, 1, 2}

NextTurnSegments(read) ==
    LET starts == IF read = <<>> THEN FirstStarts
                  ELSE {read[Len(read)].end + g : g \in TurnGaps}
    IN  {[start |-> s, end |-> s + l, text |-> t, speaker |-> sp] :
            s \in starts, l \in TurnLens, t \in ChunkTexts, sp \in SpeakerFields}

\* the truth value Python gives a number or None
Truthy(o) == o # None /\ Val(o) # 0

FreshTurnChunkSeeded ==
    [text |-> <<"a">>, start |-> Some(0), end |-> Some(0), speaker |-> Some("SPEAKER_00"),
     episode |-> None, parts |-> <<>>]

\* line 137: the accumulator before the first segment
FreshTurnChunk ==
    [text |-> <<>>, start |-> None, end |-> None, speaker |-> None, episode |-> None,
     parts |-> <<>>]

\* lines 143-144: the test that closes the current chunk
TurnFlushesOnDurationOnly(chunk, cur_speaker, segment, max_duration) ==
    Truthy(chunk.start) /\ segment.end - Val(chunk.start) > max_duration

TurnFlushes(chunk, cur_speaker, segment, max_duration) ==
    LET speaker == Some(SegmentSpeaker(segment))
    IN  \/ (speaker # cur_speaker /\ chunk.text # <<>>)
        \/ (Truthy(chunk.start) /\ segment.end - Val(chunk.start) > max_duration)

\* line 147: the chunk as it is closed
TurnClosed(chunk, segment) ==
    [chunk EXCEPT !.end = IF Truthy(chunk.end) THEN chunk.end ELSE Some(segment.start)]

\* lines 151-157: the chunk that follows a flush
TurnRestarted(segment, idx) ==
    [text |-> segment.text,
     start |-> Some(segment.start),
     end |-> Some(segment.end),
     speaker |-> Some(SegmentSpeaker(segment)),
     episode |-> Some(EpisodeName),
     parts |-> <<idx>>]

\* lines 161-167: the segment joins the current chunk
TurnContinued(chunk, segment, idx) ==
    LET started == IF chunk.text = <<>>
                   THEN [chunk EXCEPT !.start = Some(segment.start),
                                      !.speaker = Some(SegmentSpeaker(segment))]
                   ELSE chunk
    IN  [started EXCEPT !.text = @ \o <<" ">> \o segment.text,
                        !.end = Some(segment.end),
                        !.parts = Append(@, idx)]

\* lines 176-181: one formatted chunk (the dictionary of the accumulator
\* with four keys added; its text is not stripped)
FormattedTurnChunk(chunk, i, duration) ==
    [chunk_id |-> i,
     text |-> chunk.text,
     start |-> Val(chunk.start),
     end |-> Val(chunk.end),
     speaker |-> Val(chunk.speaker),
     episode |-> chunk.episode,
     duration |-> duration,
     speakers |-> <<Val(chunk.speaker)>>,
     parts |-> chunk.parts]

TurnFormattings(cs) ==
    LET n == Len(cs)
        Durations(i) == Round2(Val(cs[i].end) - Val(cs[i].start))
        choices == {ds \in [1..n -> UNION {Durations(i) : i \in 1..n}] :
                       \A i \in 1..n : ds[i] \in Durations(i)}
    IN  {[i \in 1..n |-> FormattedTurnChunk(cs[i], i - 1, ds[i])] : ds \in choices}

TurnsIdle ==
    /\ turns_pc = "idle"
    /\ max_turn_duration = 0
    /\ turn_segments = <<>>
    /\ current_speaker = None
    /\ turn_chunk = FreshTurnChunk
    /\ turn_chunks = <<>>
    /\ turn_result = <<>>
    /\ turn_has_segments = TRUE

\* lines 132-137
TurnsInit ==
    /\ turns_pc = "loop"
    /\ max_turn_duration \in MaxTurnDurations
    /\ turn_has_segments \in BOOLEAN
    /\ turn_segments = <<>>
    /\ current_speaker = None
    /\ turn_chunk = FreshTurnChunk
    /\ turn_chunks = <<>>
    /\ turn_result = <<>>

\* lines 139-158: one iteration of the loop that closes the current chunk
TurnFlush ==
    /\ turns_pc = "loop"
    /\ turn_has_segments
    /\ Len(turn_segments) < MaxTurnSegs
    /\ \E segment \in NextTurnSegments(turn_segments) :
         /\ TurnFlushes(turn_chunk, current_speaker, segment, max_turn_duration)
         /\ turn_segments' = Append(turn_segments, segment)
         /\ turn_chunks' = Append(turn_chunks, TurnClosed(turn_chunk, segment))
         /\ turn_chunk' = TurnRestarted(segment, Len(turn_segments))
         /\ current_speaker' = Some(SegmentSpeaker(segment))
    /\ UNCHANGED <<turns_pc, max_turn_duration, turn_result, turn_has_segments>>

\* lines 139-144 and 159-167: one iteration of the loop that continues the
\* current chunk
TurnContinue ==
    /\ turns_pc = "loop"
    /\ turn_has_segments
    /\ Len(turn_segments) < MaxTurnSegs
    /\ \E segment \in NextTurnSegments(turn_segments) :
         /\ ~TurnFlushes(turn_chunk, current_speaker, segment, max_turn_duration)
         /\ turn_segments' = Append(turn_segments, segment)
         /\ turn_chunk' = TurnContinued(turn_chunk, segment, Len(turn_segments))
         /\ current_speaker' = IF turn_chunk.text = <<>>
                               THEN Some(SegmentSpeaker(segment))
                               ELSE current_speaker
    /\ UNCHANGED <<turns_pc, max_turn_duration, turn_chunks, turn_result, turn_has_segments>>

\* line 170: the test that emits the accumulator after the loop
TurnEmitsFinalWithMinimum(chunk) == Strip(chunk.text) # <<>> /\ Len(chunk.text) >= 3

TurnEmitsFinal(chunk) == Strip(chunk.text) # <<>>

\* lines 132 and 169-183: the segments are exhausted (line 132 reads a
\* transcript without a `segments` key as one with no segments), the accumulator is emitted if
\* its text is not blank, the chunks are formatted and returned
TurnsReturn ==
    /\ turns_pc = "loop"
    /\ LET all == IF TurnEmitsFinal(turn_chunk)
                  THEN Append(turn_chunks, turn_chunk)
                  ELSE turn_chunks
       IN  /\ turn_chunks' = all
           /\ turn_result' \in TurnFormattings(all)
    /\ turns_pc' = "done"
    /\ UNCHANGED <<max_turn_duration, turn_segments, current_speaker, turn_chunk,
                   turn_has_segments>>

(***************************************************************************)
(* fusion.py: the words branch of merge_transcription_and_diarization,     *)
(* lines 81-96, for one transcript segment that carries a words list.      *)
(* A word is [word, start, end]; start and end may be absent (None).       *)
(***************************************************************************)
\* most words of the segment
MaxWords == 2

\* the segment, the diarization intervals and the words
WordSegments == {[start |-> 0, end |-> 2], [start |-> 1, end |-> 2]}
WordIntervals == {[start |-> 0, end |-> 1, speaker |-> "SPEAKER_00"],
                  [start |-> 1, end |-> 2, speaker |-> "SPEAKER_01"]}
WordTexts == {"a", "b"}
WordStarts == {None, Some(0), Some(1)}
WordEnds == {None, Some(1), Some(2)}
NextWords == [word : WordTexts, start : WordStarts, end : WordEnds]

\* lines 85-86: word.get("start", start_time), word.get("end", end_time)
WordGet(field, default) == IF field = None THEN default ELSE Val(field)

\* lines 85-94: the merged word of one word, given the rounded times
MergedWordSegmentLabel(word, segment, speaker_segs, st, en) ==
    [word    |-> word.word,
     start   |-> st,
     end     |-> en,
     speaker |-> find_speaker_for_segment(segment.start, segment.end, speaker_segs)]

MergedWord(word, segment, speaker_segs, st, en) ==
    LET word_start   == WordGet(word.start, segment.start)
        word_end     == WordGet(word.end, segment.end)
        word_speaker == find_speaker_for_segment(word_start, word_end, speaker_segs)
    IN  [word |-> word.word, start |-> st, end |-> en, speaker |-> word_speaker]

WordsIdle ==
    /\ words_pc = "idle"
    /\ word_segment = [start |-> 0, end |-> 0]
    /\ word_speaker_segments = <<>>
    /\ segment_words = <<>>
    /\ words_with_speakers = <<>>

\* lines 82-83: the segment has a words key
WordsInit ==
    /\ words_pc = "loop"
    /\ word_segment \in WordSegments
    /\ word_speaker_segments \in SeqsUpTo(WordIntervals, 2)
    /\ segment_words = <<>>
    /\ words_with_speakers = <<>>

\* lines 84-94: one iteration of the loop over segment["words"]
MergeWord ==
    /\ words_pc = "loop"
    /\ Len(segment_words) < MaxWords
    /\ \E word \in NextWords :
         \E st \in Round3(WordGet(word.start, word_segment.start)),
            en \in Round3(WordGet(word.end, word_segment.end)) :
            /\ segment_words' = Append(segment_words, word)
            /\ words_with_speakers' =
                  Append(words_with_speakers,
                         MergedWord(word, word_segment, word_speaker_segments, st, en))
    /\ UNCHANGED <<words_pc, word_segment, word_speaker_segments>>

\* line 96: the list is exhausted, merged_segment["words"] is set
WordsReturn ==
    /\ words_pc = "loop"
    /\ words_pc' = "done"
    /\ UNCHANGED <<word_segment, word_speaker_segments, segment_words, words_with_speakers>>

(***************************************************************************)
(* helpers.py: seconds_to_timestamp and timestamp_to_seconds.              *)
(* Seconds are integers that count milliseconds; a timestamp is the        *)
(* sequence of its characters.                                             *)
(***************************************************************************)
\* most whole days in the argument of seconds_to_timestamp
MaxDays == 1

\* the arguments: sub-second, multi-hour and multi-day values, and one
\* negative value
StampSeconds ==
    {((((d * 24 + h) * 60 + m) * 60) + sec) * 1000 + k :
        d \in 0..MaxDays, h \in {0, 1, 23}, m \in {0, 59}, sec \in {0, 59},
        k \in {0, 1, 500, 999}} \cup {-1000}

DigitChars == <<"0", "1", "2", "3", "4", "5", "6", "7", "8", "9">>

\* the decimal digits of n >= 0
RECURSIVE ToDigits(_)
ToDigits(n) ==
    IF n < 10 THEN <<DigitChars[n + 1]>>
    ELSE Append(ToDigits(n \div 10), DigitChars[(n % 10) + 1])

\* the format specs 02d and 03d: zero-padded to the width w, never cut
RECURSIVE PadLeft(_, _)
PadLeft(digits, w) == IF Len(digits) >= w THEN digits ELSE PadLeft(<<"0">> \o digits, w)

Padded(n, w) == PadLeft(ToDigits(n), w)

\* line 36: int((seconds % 1) * 1000), k being the milliseconds of the
\* argument.  A fraction that is a multiple of 1/8 s is exact in a float;
\* for another the product can fall just below k and int() then gives k - 1.
Milliseconds(k) == IF k % 125 = 0 THEN {k} ELSE {k - 1, k}

\* lines 27-39
seconds_to_timestamp(seconds, with_ms, milliseconds) ==
    LET clamped    == IF seconds < 0 THEN 0 ELSE seconds
        td_seconds == (clamped \div 1000) % 86400
        hours      == td_seconds \div 3600
        minutes    == (td_seconds % 3600) \div 60
        secs       == td_seconds % 60
        hms        == Padded(hours, 2) \o <<":">> \o Padded(minutes, 2) \o <<":">> \o Padded(secs, 2)
    IN  IF with_ms THEN hms \o <<".">> \o Padded(milliseconds, 3) ELSE hms

\* str.split(sep): the pieces of t between the separators
RECURSIVE Split(_, _)
Split(t, sep) ==
    IF \A i \in 1..Len(t) : t[i] # sep THEN <<t>>
    ELSE LET i == CHOOSE i \in 1..Len(t) : t[i] = sep /\ \A j \in 1..(i - 1) : t[j] # sep
         IN  <<SubSeq(t, 1, i - 1)>> \o Split(SubSeq(t, i + 1, Len(t)), sep)

DigitValue(c) == CHOOSE d \in 0..9 : DigitChars[d + 1] = c

\* int(digits)
RECURSIVE ParseInt(_)
ParseInt(digits) ==
    IF Len(digits) = 1 THEN DigitValue(digits[1])
    ELSE ParseInt(SubSeq(digits, 1, Len(digits) - 1)) * 10 + DigitValue(digits[Len(digits)])

RECURSIVE Pow10(_)
Pow10(n) == IF n = 0 THEN 1 ELSE 10 * Pow10(n - 1)

\* line 62: float("0." + ms_part), in milliseconds (up to three digits)
FractionMs(ms_part) == (ParseInt(ms_part) * 1000) \div Pow10(Len(ms_part))

\* lines 58-78, for the timestamps seconds_to_timestamp produces
timestamp_to_seconds(t) ==
    LET dotted       == Split(t, ".")
        has_ms       == Len(dotted) > 1
        time_part    == dotted[1]
        milliseconds == IF has_ms THEN FractionMs(dotted[2]) ELSE 0
        parts        == Split(time_part, ":")
        hours        == IF Len(parts) = 3 THEN ParseInt(parts[1]) ELSE 0
        minutes      == IF Len(parts) = 3 THEN ParseInt(parts[2]) ELSE ParseInt(parts[1])
        seconds      == IF Len(parts) = 3 THEN ParseInt(parts[3]) ELSE ParseInt(parts[2])
    IN  (hours * 3600 + minutes * 60 + seconds) * 1000 + milliseconds

StampIdle ==
    /\ stamp_pc = "idle"
    /\ stamp_seconds = 0
    /\ include_ms = TRUE
    /\ timestamp = <<>>
    /\ stamp_back = 0

StampInit ==
    /\ stamp_pc = "format"
    /\ stamp_seconds \in StampSeconds
    /\ include_ms \in BOOLEAN
    /\ timestamp = <<>>
    /\ stamp_back = 0

\* helpers.py lines 10-39: the call of seconds_to_timestamp
StampFormat ==
    /\ stamp_pc = "format"
    /\ \E milliseconds \in Milliseconds((IF stamp_seconds < 0 THEN 0 ELSE stamp_seconds) % 1000) :
          timestamp' = seconds_to_timestamp(stamp_seconds, include_ms, milliseconds)
    /\ stamp_pc' = "parse"
    /\ UNCHANGED <<stamp_seconds, include_ms, stamp_back>>

\* helpers.py lines 42-81: the call of timestamp_to_seconds on the result
StampParse ==
    /\ stamp_pc = "parse"
    /\ stamp_back' = timestamp_to_seconds(timestamp)
    /\ stamp_pc' = "done"
    /\ UNCHANGED <<stamp_seconds, include_ms, timestamp>>

(***************************************************************************)
(* indexing.py: create_chunks_with_accurate_timestamps, the chunker that   *)
(* index_transcript calls (lines 114-124, with no chunking arguments).     *)
(* Times are on the quarter-millisecond grid.  The strings timestamp_start *)
(* and timestamp_end are derived from start and end after the rounding     *)
(* that fails first, and are left out.                                     *)
(***************************************************************************)
\* most segments create_chunks_with_accurate_timestamps consumes
MaxIndexSegs == 3

IndexDurationArgs == {None, Some(1), Some(2)}
IndexOverlapArgs == {None, Some(1)}
IndexLens == {0, 2}

\* the segments of a merged transcript, in time order; every one has a
\* speaker
NextIndexSegments(read) ==
    LET starts == IF read = <<>> THEN FirstStarts ELSE {read[Len(read)].end}
    IN  {[start |-> s, end |-> s + l, text |-> t, speaker |-> sp] :
            s \in starts, l \in IndexLens, t \in ChunkTexts, sp \in SpeakerLabels}

\* lines 37-42
FreshIndexChunk == [text |-> <<>>, start |-> None, end |-> None, speakers |-> {}]

\* lines 51-52
IndexWithStart(chunk, segment) ==
    IF chunk.start = None THEN [chunk EXCEPT !.start = Some(segment.start)] ELSE chunk

\* lines 55-57: the flush decision
IndexFlushes(chunk, segment, duration) ==
    LET chunk_duration_so_far == segment.end - Val(IndexWithStart(chunk, segment).start)
    IN  chunk_duration_so_far > duration /\ chunk.text # <<>>

\* lines 58-61: the chunk as it is closed, its speakers in the order `order`
IndexClosed(chunk, segment, order) ==
    [chunk EXCEPT !.end = Some(segment.start), !.speakers = order]

\* lines 63-70: the chunk that follows a flush
IndexRestarted(segment, overlap) ==
    [text |-> segment.text,
     start |-> Some(Max2(0, segment.start - overlap)),
     end |-> None,
     speakers |-> {segment.speaker}]

\* lines 72-75: the segment joins the current chunk
IndexContinued(chunk, segment) ==
    [chunk EXCEPT !.text = IF chunk.text # <<>> THEN chunk.text \o <<" ">> \o segment.text
                           ELSE segment.text,
                  !.speakers = @ \cup {segment.speaker},
                  !.end = Some(segment.end)]

\* lines 88-97: one formatted chunk, given the rounded times
FormattedIndexChunk(chunk, i, st, en) ==
    [id |-> <<TranscriptionFile, i>>,
     text |-> Strip(chunk.text),
     start |-> st,
     end |-> en,
     speakers |-> chunk.speakers,
     episode |-> TranscriptionFile]

\* lines 86-99: the formatted lists of chunks whose times are all numbers
IndexFormattings(cs) ==
    LET n == Len(cs)
        times == UNION {Round3(Val(cs[i].start)) \cup Round3(Val(cs[i].end)) : i \in 1..n}
        choices == {r \in [1..n -> times \X times] :
                       \A i \in 1..n : /\ r[i][1] \in Round3(Val(cs[i].start))
                                        /\ r[i][2] \in Round3(Val(cs[i].end))}
    IN  {[i \in 1..n |-> FormattedIndexChunk(cs[i], i - 1, r[i][1], r[i][2])] : r \in choices}

IndexIdle ==
    /\ index_pc = "idle"
    /\ index_duration = 0
    /\ index_overlap = 0
    /\ index_segments = <<>>
    /\ index_chunk = FreshIndexChunk
    /\ index_chunks = <<>>
    /\ index_result = <<>>

\* lines 31-42
IndexInit ==
    /\ index_pc = "loop"
    /\ \E d \in IndexDurationArgs : index_duration = OrDefault(d, FusionSeconds(CHUNK_DURATION))
    /\ \E o \in IndexOverlapArgs : index_overlap = OrDefault(o, FusionSeconds(CHUNK_OVERLAP))
    /\ index_segments = <<>>
    /\ index_chunk = FreshIndexChunk
    /\ index_chunks = <<>>
    /\ index_result = <<>>

\* lines 44-70: one iteration of the loop that closes the current chunk
IndexFlush ==
    /\ index_pc = "loop"
    /\ Len(index_segments) < MaxIndexSegs
    /\ \E segment \in NextIndexSegments(index_segments) :
         /\ IndexFlushes(index_chunk, segment, index_duration)
         /\ index_segments' = Append(index_segments, segment)
         /\ \E order \in Orders(index_chunk.speakers) :
              index_chunks' = Append(index_chunks, IndexClosed(index_chunk, segment, order))
         /\ index_chunk' = IndexRestarted(segment, index_overlap)
    /\ UNCHANGED <<index_pc, index_duration, index_overlap, index_result>>

\* lines 44-57 and 71-75: one iteration of the loop that continues the chunk
IndexContinue ==
    /\ index_pc = "loop"
    /\ Len(index_segments) < MaxIndexSegs
    /\ \E segment \in NextIndexSegments(index_segments) :
         /\ ~IndexFlushes(index_chunk, segment, index_duration)
         /\ index_segments' = Append(index_segments, segment)
         /\ index_chunk' = IndexContinued(IndexWithStart(index_chunk, segment), segment)
    /\ UNCHANGED <<index_pc, index_duration, index_overlap, index_chunks, index_result>>

\* lines 77-80: the chunks after the loop, the accumulator included if it
\* has a text
IndexAllChunks(accumulated, chunk, order) ==
    IF chunk.text # <<>> THEN Append(accumulated, [chunk EXCEPT !.speakers = order])
    ELSE accumulated

\* lines 77-99: the segments are exhausted and every chunk has numeric
\* times: the chunks are formatted and returned
IndexReturn ==
    /\ index_pc = "loop"
    /\ \E order \in Orders(index_chunk.speakers) :
         LET all == IndexAllChunks(index_chunks, index_chunk, order)
         IN  /\ \A i \in 1..Len(all) : all[i].start # None /\ all[i].end # None
             /\ index_chunks' = all
             /\ index_result' \in IndexFormattings(all)
    /\ index_pc' = "done"
    /\ UNCHANGED <<index_duration, index_overlap, index_segments, index_chunk>>

\* lines 77-91: the segments are exhausted and a chunk has None for a time:
\* round(None, 3) raises TypeError and the call returns nothing
IndexRaise ==
    /\ index_pc = "loop"
    /\ \E order \in Orders(index_chunk.speakers) :
         LET all == IndexAllChunks(index_chunks, index_chunk, order)
         IN  /\ \E i \in 1..Len(all) : all[i].start = None \/ all[i].end = None
             /\ index_chunks' = all
    /\ index_pc' = "raised"
    /\ UNCHANGED <<index_duration, index_overlap, index_segments, index_chunk, index_result>>

(***************************************************************************)
(* scripts/01_batch_transcribe.py: main's loop over the audio files and    *)
(* process_single_audio, with save_json (helpers.py lines 114-127) as the  *)
(* merge calls it.  A transcript file is known by what it holds: "old" (it *)
(* was there before the run), "partial" (opened for writing, the JSON not  *)
(* or not completely written) or "merged".  Every engine and every step of *)
(* the save can raise.                                                     *)
(***************************************************************************)
\* most audio files main finds
MaxAudioFiles == 2

\* the stems of the audio files; raw_audio and converted_audio can hold
\* files with the same stem
Episodes == {"ep1", "ep2"}

Engines == <<"transcribe_audio", "diarize_audio", "merge_transcription_and_diarization">>

BatchIdle ==
    /\ batch_pc = "idle"
    /\ audio_files = <<>>
    /\ transcripts = [e \in Episodes |-> None]
    /\ episode_name = None
    /\ engine_calls = <<>>
    /\ call_result = None
    /\ success_count = 0
    /\ failed_files = <<>>

\* main lines 78-106
BatchInit ==
    /\ batch_pc = "next"
    /\ audio_files \in SeqsUpTo(Episodes, MaxAudioFiles) \ {<<>>}
    /\ transcripts \in [Episodes -> {None, Some("old")}]
    /\ episode_name = None
    /\ engine_calls = <<>>
    /\ call_result = None
    /\ success_count = 0
    /\ failed_files = <<>>

\* lines 62, 66 and main lines 111-114: the call returns ok and main counts it
Returned(ok) ==
    /\ call_result' = Some(ok)
    /\ success_count' = IF ok THEN success_count + 1 ELSE success_count
    /\ failed_files' = IF ok THEN failed_files ELSE Append(failed_files, Val(episode_name))
    /\ batch_pc' = "next"

\* main lines 108-111 and lines 28-29: the next audio file is handed to
\* process_single_audio
BatchNext ==
    /\ batch_pc = "next"
    /\ audio_files # <<>>
    /\ episode_name' = Some(Head(audio_files))
    /\ audio_files' = Tail(audio_files)
    /\ engine_calls' = <<>>
    /\ call_result' = None
    /\ batch_pc' = "check"
    /\ UNCHANGED <<transcripts, success_count, failed_files>>

\* lines 32-34: the transcript exists, the call returns True
ProcessSkip ==
    /\ batch_pc = "check"
    /\ transcripts[Val(episode_name)] # None
    /\ Returned(TRUE)
    /\ UNCHANGED <<audio_files, transcripts, episode_name, engine_calls>>

\* lines 36-42: transcribe_audio is called, and returns or raises
ProcessTranscribe ==
    /\ batch_pc = "check"
    /\ transcripts[Val(episode_name)] = None
    /\ engine_calls' = Append(engine_calls, Engines[1])
    /\ \/ batch_pc' = "diarize" /\ UNCHANGED <<call_result, success_count, failed_files>>
       \/ Returned(FALSE)
    /\ UNCHANGED <<audio_files, transcripts, episode_name>>

\* line 46: diarize_audio is called, and returns or raises
ProcessDiarize ==
    /\ batch_pc = "diarize"
    /\ engine_calls' = Append(engine_calls, Engines[2])
    /\ \/ batch_pc' = "merge" /\ UNCHANGED <<call_result, success_count, failed_files>>
       \/ Returned(FALSE)
    /\ UNCHANGED <<audio_files, transcripts, episode_name>>

\* lines 50-54 and fusion.py lines 61-112: the merge is called and builds
\* its output, or raises before it saves
ProcessMerge ==
    /\ batch_pc = "merge"
    /\ engine_calls' = Append(engine_calls, Engines[3])
    /\ \/ batch_pc' = "save" /\ UNCHANGED <<call_result, success_count, failed_files>>
       \/ Returned(FALSE)
    /\ UNCHANGED <<audio_files, transcripts, episode_name>>

\* fusion.py line 113 and helpers.py lines 123-126: the directory is made
\* and the file opened for writing, which creates it empty; either can raise
SaveOpen ==
    /\ batch_pc = "save"
    /\ \/ /\ transcripts' = [transcripts EXCEPT ![Val(episode_name)] = Some("partial")]
          /\ batch_pc' = "dump"
          /\ UNCHANGED <<call_result, success_count, failed_files>>
       \/ Returned(FALSE) /\ UNCHANGED transcripts
    /\ UNCHANGED <<audio_files, episode_name, engine_calls>>

\* helpers.py line 127 and lines 56-62: json.dump writes the output and the
\* call returns True, or raises (a value that is no JSON, a full disk) and
\* the call returns False with the file as far as it was written
SaveDump ==
    /\ batch_pc = "dump"
    /\ \/ /\ transcripts' = [transcripts EXCEPT ![Val(episode_name)] = Some("merged")]
          /\ Returned(TRUE)
       \/ Returned(FALSE) /\ UNCHANGED transcripts
    /\ UNCHANGED <<audio_files, episode_name, engine_calls>>

(***************************************************************************)
(* The specifications.                                                     *)
(***************************************************************************)
vars == <<match_vars, merge_vars, chunk_vars, turn_vars, words_vars, stamp_vars,
         index_vars, args_vars, batch_vars>>

\* the variables an entry point leaves alone: all but its own
except_match_vars == <<merge_vars, chunk_vars, turn_vars, words_vars, stamp_vars,
                       index_vars, args_vars, batch_vars>>
except_merge_vars == <<match_vars, chunk_vars, turn_vars, words_vars, stamp_vars,
                       index_vars, args_vars, batch_vars>>
except_chunk_vars == <<match_vars, merge_vars, turn_vars, words_vars, stamp_vars,
                       index_vars, args_vars, batch_vars>>
except_turn_vars == <<match_vars, merge_vars, chunk_vars, words_vars, stamp_vars,
                      index_vars, args_vars, batch_vars>>
except_words_vars == <<match_vars, merge_vars, chunk_vars, turn_vars, stamp_vars,
                       index_vars, args_vars, batch_vars>>
except_stamp_vars == <<match_vars, merge_vars, chunk_vars, turn_vars, words_vars,
                       index_vars, args_vars, batch_vars>>
except_index_vars == <<match_vars, merge_vars, chunk_vars, turn_vars, words_vars,
                       stamp_vars, args_vars, batch_vars>>
except_batch_vars == <<match_vars, merge_vars, chunk_vars, turn_vars, words_vars,
                       stamp_vars, index_vars, args_vars>>

\* one call of find_speaker_for_segment
InitMatch ==
    MatchInit /\ MergeIdle /\ ChunkIdle /\ TurnsIdle /\ WordsIdle /\ StampIdle /\
    IndexIdle /\ ArgsIdle /\ BatchIdle
NextMatch ==
    \/ MatchCall /\ UNCHANGED except_match_vars
SpecMatch == InitMatch /\ [][NextMatch]_vars

\* one call of the merge; the transcript segments carry no words key (the
\* branch of lines 81-96 is SpecWords)
InitMerge ==
    MatchIdle /\ MergeInit /\ ChunkIdle /\ TurnsIdle /\ WordsIdle /\ StampIdle /\
    IndexIdle /\ ArgsIdle /\ BatchIdle
NextMerge ==
    \/ MergeMissingSegments /\ UNCHANGED except_merge_vars
    \/ MergeSegment /\ UNCHANGED except_merge_vars
    \/ MergeMissingFile /\ UNCHANGED except_merge_vars
    \/ MergeReturn /\ UNCHANGED except_merge_vars
SpecMerge == InitMerge /\ [][NextMerge]_vars

\* the merge of five-second segments with two turns
InitScenario ==
    MatchIdle /\ ScenarioInit /\ ChunkIdle /\ TurnsIdle /\ WordsIdle /\ StampIdle /\
    IndexIdle /\ ArgsIdle /\ BatchIdle
NextScenario ==
    \/ MergeScenarioSegment /\ UNCHANGED except_merge_vars
    \/ MergeReturn /\ UNCHANGED except_merge_vars
SpecScenario == InitScenario /\ [][NextScenario]_vars

\* the words branch of the merge, for one segment
InitWords ==
    MatchIdle /\ MergeIdle /\ ChunkIdle /\ TurnsIdle /\ WordsInit /\ StampIdle /\
    IndexIdle /\ ArgsIdle /\ BatchIdle
NextWordsBranch ==
    \/ MergeWord /\ UNCHANGED except_words_vars
    \/ WordsReturn /\ UNCHANGED except_words_vars
SpecWords == InitWords /\ [][NextWordsBranch]_vars

\* one call of chunk_transcript
InitChunk ==
    MatchIdle /\ MergeIdle /\ ChunkInit /\ TurnsIdle /\ WordsIdle /\ StampIdle /\
    IndexIdle /\ ArgsIdle /\ BatchIdle
NextChunk ==
    \/ ChunkAppend /\ UNCHANGED except_chunk_vars
    \/ ChunkFlush /\ UNCHANGED except_chunk_vars
    \/ ChunkReturn /\ UNCHANGED except_chunk_vars
SpecChunk == InitChunk /\ [][NextChunk]_vars

\* chunk_transcript on up to MaxLookbackSegs short segments
InitLookback ==
    MatchIdle /\ MergeIdle /\ LookbackInit /\ TurnsIdle /\ WordsIdle /\ StampIdle /\
    IndexIdle /\ ArgsIdle /\ BatchIdle
NextLookback ==
    \/ LookbackAppend /\ UNCHANGED except_chunk_vars
    \/ LookbackFlush /\ UNCHANGED except_chunk_vars
    \/ ChunkReturn /\ UNCHANGED except_chunk_vars
SpecLookback == InitLookback /\ [][NextLookback]_vars

\* one call of chunk_transcript with absent, zero or default arguments;
\* DefaultsInit sets the arguments as passed
InitDefaults ==
    MatchIdle /\ MergeIdle /\ DefaultsInit /\ TurnsIdle /\ WordsIdle /\ StampIdle /\
    IndexIdle /\ BatchIdle
NextDefaults ==
    \/ DefaultsAppend /\ UNCHANGED except_chunk_vars
    \/ DefaultsFlush /\ UNCHANGED except_chunk_vars
    \/ ChunkReturn /\ UNCHANGED except_chunk_vars
SpecDefaults == InitDefaults /\ [][NextDefaults]_vars

\* one call of chunk_by_speaker_turns
InitTurns ==
    MatchIdle /\ MergeIdle /\ ChunkIdle /\ TurnsInit /\ WordsIdle /\ StampIdle /\
    IndexIdle /\ ArgsIdle /\ BatchIdle
NextTurns ==
    \/ TurnFlush /\ UNCHANGED except_turn_vars
    \/ TurnContinue /\ UNCHANGED except_turn_vars
    \/ TurnsReturn /\ UNCHANGED except_turn_vars
SpecTurns == InitTurns /\ [][NextTurns]_vars

\* both chunkers: one call of either
InitChunkers ==
    /\ MatchIdle /\ MergeIdle /\ WordsIdle /\ StampIdle /\ IndexIdle /\ ArgsIdle /\
       BatchIdle
    /\ \/ ChunkInit /\ TurnsIdle
       \/ ChunkIdle /\ TurnsInit
NextChunkers == NextChunk \/ NextTurns
SpecChunkers == InitChunkers /\ [][NextChunkers]_vars

\* the round trip: seconds_to_timestamp, then timestamp_to_seconds
InitStamp ==
    MatchIdle /\ MergeIdle /\ ChunkIdle /\ TurnsIdle /\ WordsIdle /\ StampInit /\
    IndexIdle /\ ArgsIdle /\ BatchIdle
NextStamp ==
    \/ StampFormat /\ UNCHANGED except_stamp_vars
    \/ StampParse /\ UNCHANGED except_stamp_vars
SpecStamp == InitStamp /\ [][NextStamp]_vars

\* one call of create_chunks_with_accurate_timestamps
InitIndex ==
    MatchIdle /\ MergeIdle /\ ChunkIdle /\ TurnsIdle /\ WordsIdle /\ StampIdle /\
    IndexInit /\ ArgsIdle /\ BatchIdle
NextIndex ==
    \/ IndexFlush /\ UNCHANGED except_index_vars
    \/ IndexContinue /\ UNCHANGED except_index_vars
    \/ IndexReturn /\ UNCHANGED except_index_vars
    \/ IndexRaise /\ UNCHANGED except_index_vars
SpecIndex == InitIndex /\ [][NextIndex]_vars

\* one run of main over the audio files found
InitBatch ==
    MatchIdle /\ MergeIdle /\ ChunkIdle /\ TurnsIdle /\ WordsIdle /\ StampIdle /\
    IndexIdle /\ ArgsIdle /\ BatchInit
NextBatch ==
    \/ BatchNext /\ UNCHANGED except_batch_vars
    \/ ProcessSkip /\ UNCHANGED except_batch_vars
    \/ ProcessTranscribe /\ UNCHANGED except_batch_vars
    \/ ProcessDiarize /\ UNCHANGED except_batch_vars
    \/ ProcessMerge /\ UNCHANGED except_batch_vars
    \/ SaveOpen /\ UNCHANGED except_batch_vars
    \/ SaveDump /\ UNCHANGED except_batch_vars
SpecBatch == InitBatch /\ [][NextBatch]_vars

(***************************************************************************)
(* The geometry the claims about the overlap matcher are stated in: the    *)
(* unit cells [t, t+1] of the grid that lie in the query and in an         *)
(* interval.  An inverted interval holds no cell.                          *)
(***************************************************************************)
SharedCells(qs, qe, seg) ==
    {t \in 0..MaxTime : qs <= t /\ t + 1 <= qe /\ seg.start <= t /\ t + 1 <= seg.end}

SharedLength(i) ==
    Cardinality(SharedCells(segment_start, segment_end, speaker_segments[i]))

GreatestShared ==
    LET lens == {SharedLength(i) : i \in 1..Len(speaker_segments)} \cup {0}
    IN  CHOOSE m \in lens : \A l \in lens : l <= m

\* the reorderings of the interval list
Reorderings(segs) ==
    {[k \in 1..Len(segs) |-> segs[p[k]]] : p \in Orders(1..Len(segs))}

(***************************************************************************)
(* Claims                                                                  *)
(***************************************************************************)

\* C1: the merge returns exactly one merged segment per transcript segment,
\* in the same order: the i-th merged segment carries the trimmed text and
\* the rounded times of the i-th transcript segment, whatever the
\* diarization holds.
C1_OneMergedSegmentPerSegment ==
    /\ Len(merged_segments) = Len(transcript_segments)
    /\ merge_pc = "done" =>
          /\ Len(output.segments) = Len(transcript_segments)
          /\ \A i \in 1..Len(transcript_segments) :
                /\ output.segments[i].text = Strip(transcript_segments[i].text)
                /\ output.segments[i].start \in Round3(transcript_segments[i].start)
                /\ output.segments[i].end \in Round3(transcript_segments[i].end)

\* C1 witness: a merge of two segments returned, one labelled and one
\* left UNKNOWN by a non-empty diarization.
C1_Witness ==
    /\ merge_pc = "done"
    /\ diarization.segments # <<>>
    /\ Len(output.segments) = 2
    /\ output.segments[1].speaker = UNKNOWN
    /\ output.segments[2].speaker # UNKNOWN
    /\ output.segments[1].text # output.segments[2].text

\* C2: when some interval shares a positive length with the query, the
\* matcher returns the label of the first interval of the list that shares
\* the greatest length; and when exactly one interval shares the greatest
\* length, every reordering of the list gives the same label.
C2_GreatestOverlapFirstWins ==
    match_pc = "done" =>
       LET n == Len(speaker_segments)
           best == {i \in 1..n : SharedLength(i) = GreatestShared}
       IN  /\ GreatestShared > 0 =>
                \E i \in best : /\ \A j \in best : i <= j
                                /\ best_speaker = speaker_segments[i].speaker
           /\ Cardinality(best) = 1 =>
                \A r \in Reorderings(speaker_segments) :
                   find_speaker_for_segment(segment_start, segment_end, r) = best_speaker

\* C2 witness: two intervals with different labels tie on a positive
\* overlap and the first one's label is returned.
C2_Witness ==
    /\ match_pc = "done"
    /\ Len(speaker_segments) = 2
    /\ SharedLength(1) = SharedLength(2)
    /\ SharedLength(1) > 0
    /\ speaker_segments[1].speaker # speaker_segments[2].speaker
    /\ best_speaker = speaker_segments[1].speaker

\* C3: the matcher returns UNKNOWN exactly when no interval shares a
\* positive length with the query (empty list, disjoint or touching
\* intervals, zero-length or inverted query, inverted intervals), and
\* otherwise the label of an interval that does.
C3_UnknownIffNoOverlap ==
    match_pc = "done" =>
       LET overlapping == {i \in 1..Len(speaker_segments) : SharedLength(i) > 0}
       IN  /\ best_speaker = UNKNOWN <=> overlapping = {}
           /\ best_speaker # UNKNOWN =>
                 \E i \in overlapping : best_speaker = speaker_segments[i].speaker

\* C3 witness: a proper query against one touching and one inverted
\* interval resolves to UNKNOWN.
C3_Witness ==
    /\ match_pc = "done"
    /\ segment_start < segment_end
    /\ Len(speaker_segments) = 2
    /\ speaker_segments[1].start = segment_end
    /\ speaker_segments[1].end > speaker_segments[1].start
    /\ speaker_segments[2].end < speaker_segments[2].start
    /\ best_speaker = UNKNOWN

(***************************************************************************)
(* What the claims about chunk_transcript are stated in.                   *)
(***************************************************************************)
ChunkDone == chunk_pc = "done"

ChunkIds == 1..Len(formatted_chunks)

\* the accumulator was emitted as the final chunk: the last chunk returned
\* holds the text of the last segment (a chunk closed by a flush never holds
\* the segment that triggered it, nor a later one)
FinalEmitted ==
    /\ formatted_chunks # <<>>
    /\ \E k \in 1..Len(formatted_chunks[Len(formatted_chunks)].parts) :
          formatted_chunks[Len(formatted_chunks)].parts[k] = Len(segments) - 1

\* the unit cells [t, t+1) of the span from the first segment's start to
\* the last segment's end
SpanCells == segments[1].start .. (segments[Len(segments)].end - 1)

SpanCovered ==
    \A t \in SpanCells :
        \E i \in ChunkIds : formatted_chunks[i].start <= t /\ t < formatted_chunks[i].end

StartsOrdered ==
    \A i \in ChunkIds : \A j \in ChunkIds :
        j = i + 1 => formatted_chunks[i].start <= formatted_chunks[j].start

OnlyNeighboursOverlap ==
    \A i \in ChunkIds : \A j \in ChunkIds :
        j >= i + 2 => formatted_chunks[i].end <= formatted_chunks[j].start

\* the segments (0-based indices) whose text a chunk holds
PartsOf(chunk) == {chunk.parts[k] : k \in 1..Len(chunk.parts)}

C5_SpanCoveredAlways ==
    (ChunkDone /\ segments # <<>> /\ Strip(current_chunk.text) # <<>>) => SpanCovered

\* C5 as amended: the windows cover the span whenever the trailing
\* accumulator is emitted, that is when its text is not blank and holds at
\* least min_chunk_size characters.
C5_SpanCoveredWhenFinalEmitted ==
    (/\ ChunkDone
     /\ segments # <<>>
     /\ Strip(current_chunk.text) # <<>>
     /\ Len(current_chunk.text) >= min_chunk_size) => SpanCovered

\* C5 witness: three segments, a flush in between, the final chunk emitted.
C5_Witness ==
    /\ ChunkDone
    /\ Len(segments) = 3
    /\ Len(formatted_chunks) >= 2
    /\ FinalEmitted
    /\ SpanCovered

\* C6 as claimed: chunks that are not neighbours never overlap in time,
\* for every positive chunk_duration and chunk_overlap (stated on the calls
\* with min_chunk_size > 0, where every chunk holds a segment).
C6_OnlyNeighboursOverlapAnyOverlap ==
    (ChunkDone /\ min_chunk_size > 0) => OnlyNeighboursOverlap

\* C6 as amended: chunks that are not neighbours never overlap in time
\* whenever 2 * chunk_overlap <= chunk_duration.
C6_OnlyNeighboursOverlapHalfDuration ==
    (ChunkDone /\ 2 * chunk_overlap <= chunk_duration) => OnlyNeighboursOverlap

\* C6 witness: three chunks returned with 2 * chunk_overlap <= chunk_duration.
C6_Witness ==
    /\ ChunkDone
    /\ 2 * chunk_overlap <= chunk_duration
    /\ Len(formatted_chunks) = 3

\* C7: every chunk either chunker returns has start <= end and a duration
\* that is not negative.
C7_ChunkStartBeforeEnd ==
    /\ ChunkDone =>
          \A i \in ChunkIds : /\ formatted_chunks[i].start <= formatted_chunks[i].end
                              /\ formatted_chunks[i].duration >= 0
    /\ turns_pc = "done" =>
          \A i \in 1..Len(turn_result) : /\ turn_result[i].start <= turn_result[i].end
                                         /\ turn_result[i].duration >= 0

\* C7 witness: chunk_by_speaker_turns returned a chunk whose end line 147
\* took from the start of the segment that closed it.
C7_Witness ==
    /\ turns_pc = "done"
    /\ Len(turn_result) >= 2
    /\ turn_segments[1].end = 0
    /\ turn_result[1].end = turn_segments[2].start
    /\ turn_result[1].parts = <<0>>

\* C8 as claimed: any two consecutive chunks of chunk_transcript hold the
\* text of a common segment (stated on the calls with min_chunk_size > 0,
\* where every chunk holds a segment).
C8_NeighboursShareSegment ==
    (ChunkDone /\ min_chunk_size > 0) =>
       \A i \in ChunkIds : \A j \in ChunkIds :
          j = i + 1 => PartsOf(formatted_chunks[i]) \cap PartsOf(formatted_chunks[j]) # {}

\* C9 as claimed: the accumulator is emitted as the final chunk if and only
\* if it holds at least min_chunk_size characters.
C9_FinalIffMinimum ==
    (ChunkDone /\ segments # <<>>) =>
       (FinalEmitted <=> Len(current_chunk.text) >= min_chunk_size)

\* C9 as amended: the accumulator is emitted as the final chunk if and only
\* if its text (the separators counted) holds at least min_chunk_size
\* characters and is not blank.
C9_FinalIffMinimumAndNotBlank ==
    (ChunkDone /\ segments # <<>>) =>
       (FinalEmitted <=> (/\ Len(current_chunk.text) >= min_chunk_size
                          /\ \E k \in 1..Len(current_chunk.text) : current_chunk.text[k] # " "))

\* C9 witness: a trailing accumulator that is not blank and is dropped for
\* being shorter than the minimum, after a chunk was closed.
C9_Witness ==
    /\ ChunkDone
    /\ formatted_chunks # <<>>
    /\ ~FinalEmitted
    /\ Strip(current_chunk.text) # <<>>
    /\ Len(current_chunk.text) < min_chunk_size

\* C10 as claimed: the speakers list of every chunk of chunk_transcript is
\* not empty, has no duplicate, and holds exactly the speakers of the
\* segments whose text the chunk holds (UNKNOWN for a segment without one).
C10_SpeakersOfContents ==
    ChunkDone =>
       \A i \in ChunkIds :
          LET sp == formatted_chunks[i].speakers
          IN  /\ sp # <<>>
              /\ \A a \in 1..Len(sp) : \A b \in 1..Len(sp) : sp[a] = sp[b] => a = b
              /\ {sp[a] : a \in 1..Len(sp)} =
                    {SegmentSpeaker(segments[p + 1]) : p \in PartsOf(formatted_chunks[i])}

(***************************************************************************)
(* What the claims about the text of a chunk are stated in.                *)
(***************************************************************************)
\* the texts of the segments (0-based indices `parts`) of a transcript
SegmentTexts(segs, parts) == [k \in 1..Len(parts) |-> segs[parts[k] + 1].text]

\* the text a chunk of the segments `parts` is to carry: their texts joined
\* by single spaces, trimmed
JoinedTrimmed(segs, parts) == Strip(Join(SegmentTexts(segs, parts)))

ChunkTextsJoined ==
    \A i \in ChunkIds :
        formatted_chunks[i].text = JoinedTrimmed(segments, formatted_chunks[i].parts)

TurnTextsJoined ==
    \A i \in 1..Len(turn_result) :
        turn_result[i].text = JoinedTrimmed(turn_segments, turn_result[i].parts)

\* C11 as claimed: for both chunkers the text of every returned chunk is
\* the texts of its segments joined by single spaces in input order, with
\* no leading or trailing whitespace.
C11_ChunkTextJoinedTrimmed ==
    /\ ChunkDone => ChunkTextsJoined
    /\ turns_pc = "done" => TurnTextsJoined

\* the segments of a chunk form a run of consecutive segments of the input
ConsecutiveRun(parts) ==
    \A k \in 1..(Len(parts) - 1) : parts[k + 1] = parts[k] + 1

\* C12 as claimed: every chunk of chunk_transcript holds one or more
\* consecutive segments: num_segments is at least 1 and is the number of
\* segments whose text the chunk holds, and those segments are a run of the
\* input (stated on the calls with min_chunk_size > 0, where every chunk
\* holds a segment).
C12_NumSegmentsCountsContents ==
    (ChunkDone /\ min_chunk_size > 0) =>
       \A i \in ChunkIds :
          /\ formatted_chunks[i].num_segments >= 1
          /\ formatted_chunks[i].num_segments = Len(formatted_chunks[i].parts)
          /\ ConsecutiveRun(formatted_chunks[i].parts)

(***************************************************************************)
(* Claims about the merged transcript and its failures.                    *)
(***************************************************************************)

\* C13: num_speakers and speakers of the merged transcript are those of the
\* diarization, whatever labels the merged segments received.
C13_InventoryFromDiarization ==
    merge_pc = "done" =>
       /\ output.num_speakers = diarization.num_speakers
       /\ output.speakers = diarization.speakers

\* C13 witness: the diarization names a speaker and every merged segment
\* of the returned transcript is UNKNOWN.
C13_Witness ==
    /\ merge_pc = "done"
    /\ diarization.num_speakers = 1
    /\ Len(output.segments) = 2
    /\ \A i \in 1..Len(output.segments) : output.segments[i].speaker = UNKNOWN
    /\ output.speakers # <<>>

C15_OneMergedWordPerWord ==
    /\ Len(words_with_speakers) = Len(segment_words)
    /\ \A i \in 1..Len(segment_words) :
          LET w  == segment_words[i]
              ws == IF w.start = None THEN word_segment.start ELSE Val(w.start)
              we == IF w.end = None THEN word_segment.end ELSE Val(w.end)
              sharing == {k \in 1..Len(word_speaker_segments) :
                             SharedCells(ws, we, word_speaker_segments[k]) # {}}
              m  == words_with_speakers[i]
          IN  /\ m.word = w.word
              /\ m.start \in Round3(ws)
              /\ m.end \in Round3(we)
              /\ m.speaker = find_speaker_for_segment(ws, we, word_speaker_segments)
              /\ m.speaker = UNKNOWN <=> sharing = {}
              /\ m.speaker # UNKNOWN =>
                    \E k \in sharing : m.speaker = word_speaker_segments[k].speaker

\* C15 witness: two words were merged, the first without a start of its
\* own, the second with a label that is not the label of the segment.
C15_Witness ==
    /\ words_pc = "done"
    /\ Len(words_with_speakers) = 2
    /\ segment_words[1].start = None
    /\ segment_words[1].word # segment_words[2].word
    /\ words_with_speakers[2].speaker # UNKNOWN
    /\ words_with_speakers[2].speaker #
          find_speaker_for_segment(word_segment.start, word_segment.end, word_speaker_segments)

(***************************************************************************)
(* Claims about chunk_by_speaker_turns.                                    *)
(***************************************************************************)
TurnsDone == turns_pc = "done"

TurnIds == 1..Len(turn_result)

\* C16: every chunk of chunk_by_speaker_turns has exactly one speaker, and
\* every segment that put text into the chunk (its text is not empty)
\* carries that label, UNKNOWN for a segment without one.
C16_OneSpeakerPerNonEmptySegment ==
    TurnsDone =>
       \A i \in TurnIds :
          /\ Len(turn_result[i].speakers) = 1
          /\ turn_result[i].speakers[1] = turn_result[i].speaker
          /\ \A p \in PartsOf(turn_result[i]) :
                turn_segments[p + 1].text # <<>> =>
                   SegmentSpeaker(turn_segments[p + 1]) = turn_result[i].speakers[1]

\* C16 witness: two chunks of different speakers were returned, one of
\* them holding two segments with text.
C16_Witness ==
    /\ TurnsDone
    /\ Len(turn_result) = 2
    /\ turn_result[1].speakers # turn_result[2].speakers
    /\ \E i \in TurnIds :
          /\ Len(turn_result[i].parts) = 2
          /\ \A p \in PartsOf(turn_result[i]) : turn_segments[p + 1].text # <<>>

\* the chunks that hold the text of segment idx (0-based)
TurnChunksOf(idx) == {i \in TurnIds : idx \in PartsOf(turn_result[i])}

\* the chunks follow the input: the segments of the chunks, chunk after
\* chunk, are in increasing order
TurnChunksInOrder ==
    \A i \in TurnIds : \A j \in TurnIds :
        \A p \in PartsOf(turn_result[i]) : \A q \in PartsOf(turn_result[j]) :
            i < j => p < q

\* the accumulator was emitted as the last chunk
TurnFinalEmitted ==
    /\ turn_result # <<>>
    /\ turn_chunk.parts # <<>>
    /\ turn_result[Len(turn_result)].parts = turn_chunk.parts

\* C17 as claimed: chunk_by_speaker_turns drops nothing: every input
\* segment is in exactly one returned chunk, the chunks follow the input
\* order, and the trailing accumulator is emitted whenever its text is not
\* empty.
C17_TurnsDropNothing ==
    TurnsDone =>
       /\ \A idx \in 0..(Len(turn_segments) - 1) : Cardinality(TurnChunksOf(idx)) = 1
       /\ TurnChunksInOrder
       /\ turn_chunk.text # <<>> => TurnFinalEmitted

\* C17 as amended: the chunks follow the input order; the trailing
\* accumulator is emitted if and only if its text is not blank, however
\* short; every segment is in exactly one returned chunk, except the
\* segments of a blank trailing accumulator, which are in none.
C17_TurnsDropOnlyBlankTail ==
    TurnsDone =>
       /\ TurnChunksInOrder
       /\ TurnFinalEmitted <=> Strip(turn_chunk.text) # <<>>
       /\ \A idx \in 0..(Len(turn_segments) - 1) :
             IF Strip(turn_chunk.text) = <<>> /\ idx \in PartsOf(turn_chunk)
             THEN TurnChunksOf(idx) = {}
             ELSE Cardinality(TurnChunksOf(idx)) = 1

\* C17 witness: after a chunk was closed, a trailing accumulator of two
\* characters (a separator and one letter) was emitted.
C17_Witness ==
    /\ TurnsDone
    /\ Len(turn_result) >= 2
    /\ TurnFinalEmitted
    /\ Len(turn_chunk.text) = 2
    /\ Strip(turn_chunk.text) # <<>>

(***************************************************************************)
(* Claims about the timestamp helpers.                                     *)
(***************************************************************************)
StampError == IF stamp_back >= stamp_seconds THEN stamp_back - stamp_seconds
              ELSE stamp_seconds - stamp_back

\* C18 as claimed: for every x >= 0, sub-second, multi-hour or multi-day,
\* timestamp_to_seconds(seconds_to_timestamp(x)) is within 1 ms of x.
C18_RoundTripWithinMillisecond ==
    (stamp_pc = "done" /\ include_ms /\ stamp_seconds >= 0) => StampError <= 1

(***************************************************************************)
(* Claims about the input the chunkers are given.                          *)
(***************************************************************************)
\* C19: a transcript whose segments list is empty gives an empty chunk list,
\* and no error, from chunk_transcript whatever chunk_duration, chunk_overlap
\* and min_chunk_size are, and from chunk_by_speaker_turns.
C19_EmptySegmentsGiveNoChunks ==
    /\ (chunk_pc = "done" /\ segments = <<>>) => (chunks = <<>> /\ formatted_chunks = <<>>)
    /\ (turns_pc = "done" /\ turn_segments = <<>>) => (turn_chunks = <<>> /\ turn_result = <<>>)
    /\ (chunk_pc = "loop" /\ segments = <<>>) => ENABLED ChunkReturn
    /\ (turns_pc = "loop" /\ turn_segments = <<>>) => ENABLED TurnsReturn

\* chunk_transcript has returned on an empty segments list, called with no
\* minimum size and an overlap longer than the chunk duration
C19_Witness ==
    /\ chunk_pc = "done"
    /\ segments = <<>>
    /\ min_chunk_size = 0
    /\ chunk_overlap > chunk_duration
    /\ formatted_chunks = <<>>

\* C20 as claimed: chunk_transcript and chunk_by_speaker_turns called with a
\* transcript that has no `segments` key fail with a missing-data error:
\* neither returns a result.
C20_MissingSegmentsKeyNeverReturns ==
    /\ ~chunk_has_segments => chunk_pc # "done"
    /\ ~turn_has_segments => turns_pc # "done"

(***************************************************************************)
(* Claims about the merge of whole-second inputs.                          *)
(***************************************************************************)
\* the diarization [0,7] SPEAKER_00, [7,15] SPEAKER_01 and the transcript
\* segments [0,5], [5,10], [10,15] have been merged
ScenarioMerged ==
    /\ merge_pc = "done"
    /\ diarization.segments = ScenarioTurns(7, "SPEAKER_00", "SPEAKER_01")
    /\ Len(transcript_segments) = 3

\* C21: merging the transcript segments [0,5], [5,10], [10,15] with the
\* diarization [0,7] SPEAKER_00, [7,15] SPEAKER_01 yields three merged
\* segments labelled SPEAKER_00, SPEAKER_01, SPEAKER_01 in that order.
C21_ScenarioLabels ==
    ScenarioMerged =>
        /\ Len(output.segments) = 3
        /\ [i \in 1..3 |-> output.segments[i].speaker]
              = <<"SPEAKER_00", "SPEAKER_01", "SPEAKER_01">>
        /\ \A i \in 1..3 : /\ output.segments[i].start = transcript_segments[i].start
                            /\ output.segments[i].end = transcript_segments[i].end
        /\ Overlap(transcript_segments[2].start, transcript_segments[2].end,
                   diarization.segments[1]) = FusionSeconds(2)
        /\ Overlap(transcript_segments[2].start, transcript_segments[2].end,
                   diarization.segments[2]) = FusionSeconds(3)

C21_Witness ==
    /\ ScenarioMerged
    /\ [i \in 1..3 |-> transcript_segments[i].end]
          = <<FusionSeconds(5), FusionSeconds(10), FusionSeconds(15)>>
    /\ output.segments[2].speaker = "SPEAKER_01"

(***************************************************************************)
(* Claims about the records chunk_by_speaker_turns returns.                *)
(***************************************************************************)
\* C22 as claimed: every chunk chunk_by_speaker_turns returns, the first
\* one included, carries an episode field equal to the transcript's file
\* identifier.
C22_EveryTurnChunkHasEpisode ==
    TurnsDone => \A i \in TurnIds : turn_result[i].episode = Some(EpisodeName)

(***************************************************************************)
(* Claims about single steps of chunk_transcript.                          *)
(***************************************************************************)
\* the step processes one segment
ChunkStep == chunk_pc = "loop" /\ Len(segments') = Len(segments) + 1

\* the segment the step processes
StepSegment == segments'[Len(segments')]

\* the start the accumulator is measured from: the segment's when it is fresh
StepStart == IF current_chunk.start = None THEN StepSegment.start ELSE Val(current_chunk.start)

\* the trigger condition of the step, read off the state before it
StepTriggers ==
    /\ StepSegment.end - StepStart > chunk_duration
    /\ Len(current_chunk.text) >= min_chunk_size

\* C23: chunk_transcript closes the current chunk while processing segment s
\* if and only if (s.end - current_chunk.start) > chunk_duration and
\* len(current_chunk.text) >= min_chunk_size, current_chunk.start being
\* s.start when the accumulator is fresh; otherwise s is appended to the
\* current chunk and no chunk is emitted at s.
C23_ClosesIffTrigger ==
    [][ChunkStep =>
         /\ StepTriggers <=> Len(chunks') = Len(chunks) + 1
         /\ ~StepTriggers =>
               /\ chunks' = chunks
               /\ current_chunk'.text = current_chunk.text \o <<" ">> \o StepSegment.text
               /\ current_chunk'.parts = Append(current_chunk.parts, Len(segments))
               /\ current_chunk'.start = Some(StepStart)]_vars

\* a first chunk of two segments has been closed by a third, with a minimum
\* size in force: the second segment was appended, the third triggered
C23_Witness ==
    /\ chunk_pc = "loop"
    /\ min_chunk_size > 0
    /\ Len(chunks) = 1
    /\ Len(chunks[1].parts) = 2
    /\ Len(segments) = 3

\* C24 as claimed: the chunk a flush closes gets the end of the triggering
\* segment and its text includes every segment processed before or at the
\* flush decision, so that the end of every chunk is the end of a segment
\* whose text the chunk contains.
C24_EndIsOfContainedSegment ==
    (ChunkDone /\ min_chunk_size > 0) =>
        \A i \in 1..Len(chunks) :
            \E k \in 1..Len(chunks[i].parts) :
                segments[chunks[i].parts[k] + 1].end = Val(chunks[i].end)

\* C25 as claimed: every chunk chunk_transcript returns, the first and every
\* chunk started after a flush, has start equal to the start of the first
\* segment added to it, the earliest segment whose text it contains.
C25_StartIsOfFirstSegment ==
    (ChunkDone /\ min_chunk_size > 0) =>
        \A i \in 1..Len(chunks) :
            chunks[i].parts # <<>> =>
                Val(chunks[i].start) = segments[chunks[i].parts[1] + 1].start

\* the step closes a chunk
FlushStep == ChunkStep /\ Len(chunks') = Len(chunks) + 1

\* the indices (0-based) the claim has carried over by the step: those of
\* the five segments before the one processed whose end is inside the window
CarriedOver ==
    {j \in 0..(Len(segments) - 1) :
        /\ j >= Len(segments) - 5
        /\ segments[j + 1].end >= StepSegment.end - chunk_overlap}

\* C26: after a flush triggered by the segment at index i with end E, the
\* next chunk is pre-seeded with exactly those of the at most 5 segments at
\* indices i-5..i-1 whose end >= E - chunk_overlap, in input order, then
\* segment i is appended; a segment more than 5 positions back is never
\* carried over, even when its end lies inside the overlap window.
C26_CarriesOverLastFiveInWindow ==
    [][FlushStep =>
         LET parts == current_chunk'.parts
             n     == Len(parts)
         IN  /\ n = Cardinality(CarriedOver) + 1
             /\ parts[n] = Len(segments)
             /\ {parts[k] : k \in 1..(n - 1)} = CarriedOver
             /\ \A k \in 1..(n - 1) : parts[k] < parts[k + 1]
             /\ current_chunk'.text =
                   Join([k \in 1..(n - 1) |-> segments[parts[k] + 1].text])
                      \o <<" ">> \o StepSegment.text]_vars

\* the seventh segment has triggered a flush, the first segment ends inside
\* the overlap window, and the five segments between them were carried over
C26_Witness ==
    /\ chunk_pc = "loop"
    /\ Len(segments) = 7
    /\ Len(chunks) = 1
    /\ segments[1].end >= segments[7].end - chunk_overlap
    /\ current_chunk.parts = <<1, 2, 3, 4, 5, 6>>

(***************************************************************************)
(* Claims about the length of a speaker turn.                              *)
(***************************************************************************)
\* the segments of a chunk that have a text
SpokenParts(chunk) == SelectSeq(chunk.parts, LAMBDA j : turn_segments[j + 1].text # <<>>)

\* C27 as claimed: chunk_by_speaker_turns starts a new chunk whenever the
\* elapsed duration s.end - chunk.start exceeds max_turn_duration, for every
\* chunk start time >= 0; hence every returned chunk that holds more than
\* one segment has end - start <= max_turn_duration.
C27_TurnWithinMaxDuration ==
    TurnsDone =>
        \A i \in 1..Len(turn_chunks) :
            Len(SpokenParts(turn_chunks[i])) > 1 =>
                Val(turn_chunks[i].end) - Val(turn_chunks[i].start) <= max_turn_duration

(***************************************************************************)
(* Claims about create_chunks_with_accurate_timestamps.                    *)
(***************************************************************************)
\* C28 as claimed: for every transcript with at least one segment, in time
\* order, create_chunks_with_accurate_timestamps returns without failing a
\* list in which every chunk has a numeric start and end with start <= end,
\* whichever segment triggered the last flush.
C28_IndexChunksAlwaysTimed ==
    /\ index_pc # "raised"
    /\ index_pc = "done" =>
          \A i \in 1..Len(index_result) : index_result[i].start <= index_result[i].end

(***************************************************************************)
(* Claims about the arguments of chunk_transcript.                         *)
(***************************************************************************)
\* a closed chunk with its speakers as a set, whatever order the list has
SpeakersAsSet(chunk) ==
    [chunk EXCEPT !.speakers = {chunk.speakers[k] : k \in 1..Len(chunk.speakers)}]

\* where the loop of chunk_transcript stands after the segments segs when it
\* runs with the duration, overlap and minimum size given: the accumulator
\* and the chunks closed so far
RECURSIVE ChunkRun(_, _, _, _)
ChunkRun(segs, duration, overlap, min_size) ==
    IF segs = <<>> THEN [chunk |-> FreshChunk, closed |-> <<>>]
    ELSE LET n       == Len(segs)
             read    == SubSeq(segs, 1, n - 1)
             before  == ChunkRun(read, duration, overlap, min_size)
             segment == segs[n]
         IN  IF Flushes(before.chunk, segment, duration, min_size)
             THEN [chunk  |-> WithSegment(RestartedChunk(read, n - 1, segment.end, overlap),
                                          segment, n - 1),
                   closed |-> Append(before.closed,
                                     ClosedChunk(WithStart(before.chunk, segment),
                                                 segment.end, before.chunk.speakers))]
             ELSE [chunk  |-> WithSegment(WithStart(before.chunk, segment), segment, n - 1),
                   closed |-> before.closed]

\* where the call stands
ChunkStands ==
    [chunk |-> current_chunk, closed |-> [i \in 1..Len(chunks) |-> SpeakersAsSet(chunks[i])]]

\* C29: chunk_transcript treats a chunk_overlap of 0, and likewise a
\* chunk_duration of 0, as not given: on every transcript the call with
\* chunk_overlap = 0 stands, after every segment, where the call with
\* chunk_overlap = Config.CHUNK_OVERLAP stands (and the call with
\* chunk_duration = 0 where the call with Config.CHUNK_DURATION stands), so
\* its result is the same and no overlap of 0 is ever in force.
C29_ZeroArgumentsAreDefaults ==
    chunk_pc = "loop" =>
        /\ ChunkStands = ChunkRun(segments, chunk_duration, chunk_overlap, min_chunk_size)
        /\ chunk_overlap_arg = Some(0) =>
              /\ chunk_overlap # 0
              /\ ChunkStands = ChunkRun(segments, chunk_duration, Seconds(CHUNK_OVERLAP),
                                        min_chunk_size)
        /\ chunk_duration_arg = Some(0) =>
              ChunkStands = ChunkRun(segments, Seconds(CHUNK_DURATION), chunk_overlap,
                                     min_chunk_size)

\* a call with both arguments 0 has closed a chunk after the default
\* duration and restarted at the default overlap before the flush boundary
C29_Witness ==
    /\ chunk_pc = "loop"
    /\ chunk_overlap_arg = Some(0)
    /\ chunk_duration_arg = Some(0)
    /\ Len(segments) = 2
    /\ Len(chunks) = 1
    /\ segments[2].end > Seconds(CHUNK_DURATION)
    /\ current_chunk.start = Some(segments[2].end - Seconds(CHUNK_OVERLAP))

\* a step on which process_single_audio returns to main
ProcessReturns == batch_pc # "next" /\ batch_pc' = "next"

\* a step that writes to the transcripts directory
TranscriptWritten == transcripts' # transcripts

\* C30 as claimed: process_single_audio writes the episode's transcript file
\* only after transcribe_audio, diarize_audio and the merge have been called
\* in that order in this call; a call that returns False leaves no transcript
\* file for the episode; a call that finds the file returns True with no
\* engine called and the file as it was
C30_WritesOnlyAfterAllSteps ==
    [][/\ TranscriptWritten => engine_calls = Engines
       /\ ProcessReturns /\ call_result' = Some(FALSE)
              => transcripts'[Val(episode_name)] = None
       /\ batch_pc = "check" /\ transcripts[Val(episode_name)] # None
              => /\ call_result' = Some(TRUE)
                 /\ engine_calls' = <<>>
                 /\ ~TranscriptWritten]_vars

=============================================================================
